---- MODULE Spec2Model ----
(***************************************************************************)
(* Tool-triggered form orchestration of the chat client: MCPToolDetector   *)
(* (its option extractors, the trigger and cleanup effects, the submit and *)
(* cancel handlers, message synthesis) together with the submit handlers   *)
(* of the forms it renders.  React is modelled at the level the detector   *)
(* relies on: a render takes a snapshot of the Recoil atoms, an effect     *)
(* runs when one of its dependencies changed identity, an effect's cleanup *)
(* runs with the closure of the render that registered it.                 *)
(***************************************************************************)
EXTENDS Integers, Sequences, FiniteSets, TLC

(***************************************************************************)
(* JavaScript values.  A string is described by what the code can observe  *)
(* of it: plain text (s, the text itself), or text that is the JSON        *)
(* encoding of a value (enc = "json"), or JSON text followed by the        *)
(* "\n\nNOTE:" section the custom-form tool appends (enc = "note"), or a     *)
(* fenced markdown block (enc = "fenced").                                 *)
(***************************************************************************)
Undef == [k |-> "undef"]
Null == [k |-> "null"]
Str(s) == [k |-> "str", enc |-> "plain", s |-> s]
JsonText(v) == [k |-> "str", enc |-> "json", val |-> v]
NoteText(v) == [k |-> "str", enc |-> "note", val |-> v]
\* the text "```markdown\n" + s + "\n```"
Fenced(s) == [k |-> "str", enc |-> "fenced", s |-> s]
\* a template literal: fixed text of the given kind around the parts
Template(kind, parts) == [k |-> "str", enc |-> "template", kind |-> kind, parts |-> parts]
Num(n) == [k |-> "num", n |-> n]
Bool(b) == [k |-> "bool", b |-> b]
\* The two fences of a markdown block, and a text made of fences and of
\* words that hold no newline and no backtick
\* (FenceOpen is the three backticks, 'markdown' and the newline after
\* them, FenceClose the newline and the three backticks after it)
FenceOpen == "fence-open"
FenceClose == "fence-close"
Markdown(pieces) == [k |-> "str", enc |-> "markdown", pieces |-> pieces]
Arr(items) == [k |-> "arr", items |-> items]
Obj(f) == [k |-> "obj", f |-> f]
EmptyObj == Obj(<<>>)
EmptyArr == Arr(<<>>)

IsArr(v) == v.k = "arr"
IsStr(v) == v.k = "str"

\* !!v
Truthy(v) ==
  CASE v.k = "undef" -> FALSE
    [] v.k = "null" -> FALSE
    [] v.k = "str" -> IF v.enc = "plain" THEN v.s # "" ELSE TRUE
    [] v.k = "num" -> v.n # 0
    [] v.k = "bool" -> v.b
    [] OTHER -> TRUE

\* a || b
Or(a, b) == IF Truthy(a) THEN a ELSE b

\* v.key does not throw a TypeError
CanGet(v) == v.k \notin {"undef", "null"}

\* v.key for a value on which property access does not throw
Get(v, key) == IF v.k = "obj" /\ key \in DOMAIN v.f THEN v.f[key] ELSE Undef

Thrown == [ok |-> FALSE, v |-> Undef]
Ok(v) == [ok |-> TRUE, v |-> v]

\* JSON.parse(t): the decoded value, or a SyntaxError.  Text with a NOTE
\* suffix and plain text are not JSON; a non-string argument is coerced to
\* text that is not JSON for the objects and arrays of this model.
JSONparse(t) == IF t.k = "str" /\ t.enc = "json" THEN Ok(t.val) ELSE Thrown

\* (pd[key] || []).map(f) does not throw: the value is an array and f can
\* read the properties of every element
Mappable(pd, key) ==
  LET l == Or(Get(pd, key), EmptyArr)
  IN  IsArr(l) /\ \A i \in 1..Len(l.items) : CanGet(l.items[i])

ListOf(pd, key) == Or(Get(pd, key), EmptyArr).items

\* typeof v === 'string' && v === s
IsText(v, s) == v.k = "str" /\ v.enc = "plain" /\ v.s = s

\* items.map(F)
MapArr(items, F(_)) == Arr([i \in 1..Len(items) |-> F(items[i])])

(***************************************************************************)
(* MCP_TOOL_CONFIGS: the option extractors                                 *)
(***************************************************************************)

\* The decoding idiom of the crawl, outreach, site_keyword and
\* keyword_cluster extractors: decode the output; when it is a non-empty
\* array whose first element has a truthy text, decode that text; when
\* anything in there throws, decode the output itself once more.
unwrapTextContent(output) ==
  LET p == JSONparse(output)
  IN  IF ~p.ok THEN Thrown
      ELSE IF IsArr(p.v) /\ Len(p.v.items) > 0
           THEN LET first == p.v.items[1]
                IN  IF ~CanGet(first) THEN Ok(p.v)
                    ELSE IF ~Truthy(Get(first, "text")) THEN Ok(p.v)
                    ELSE LET q == JSONparse(Get(first, "text"))
                         IN  IF q.ok THEN Ok(q.v) ELSE Ok(p.v)
           ELSE Ok(p.v)

\* prefilledParams[param.key]: the property name that param.key is coerced to
paramKey(param) ==
  LET key == Get(param, "key")
  IN  IF key.k = "str" /\ key.enc = "plain" THEN key.s ELSE "undefined"

\* "Convert prefilled_params array to object": a later pair overwrites an
\* earlier one with the same key
prefilledParamsOf(pd) ==
  LET pp == Get(pd, "prefilled_params")
  IN  IF ~IsArr(pp) THEN Ok(EmptyObj)
      ELSE IF \E i \in 1..Len(pp.items) : ~CanGet(pp.items[i]) THEN Thrown
      ELSE LET n == Len(pp.items)
               keys == {paramKey(pp.items[i]) : i \in 1..n}
               last(key) == CHOOSE i \in 1..n :
                              /\ paramKey(pp.items[i]) = key
                              /\ \A j \in (i + 1)..n : paramKey(pp.items[j]) # key
           IN  Ok(Obj([key \in keys |-> Get(pp.items[last(key)], "value")]))

\* The website entry without the fallback of its name
crawlWebsiteNamed(ws) ==
  Obj([id |-> Get(ws, "id"), name |-> Get(ws, "name"), url |-> Get(ws, "url")])

crawlWebsite(ws) ==
  Obj([id |-> Get(ws, "id"), name |-> Or(Get(ws, "name"), Get(ws, "url")),
       url |-> Get(ws, "url")])

crawlConfig(config) ==
  Obj([id |-> Get(config, "id"), name |-> Get(config, "name"),
       description |-> Get(config, "description"),
       created_at |-> Get(config, "created_at")])

crawlEmptyBundle ==
  Obj([websites |-> EmptyArr, crawlConfigs |-> EmptyArr, prefilledParams |-> EmptyObj])

extractCrawlOptions(output) ==
  LET p == unwrapTextContent(output)
  IN  IF \/ ~p.ok
         \/ ~CanGet(p.v)
         \/ ~Mappable(p.v, "websites")
         \/ ~Mappable(p.v, "crawl_configs")
         \/ ~prefilledParamsOf(p.v).ok
      THEN crawlEmptyBundle
      ELSE Obj([websites |-> MapArr(ListOf(p.v, "websites"), crawlWebsite),
                crawlConfigs |-> MapArr(ListOf(p.v, "crawl_configs"), crawlConfig),
                prefilledParams |-> prefilledParamsOf(p.v).v])

addCrawlConfigEmptyBundle == Obj([prefilledParams |-> EmptyObj])

\* render_add_crawl_config_form: outputArray[0]?.text does not throw, and
\* a decoding error leaves parsedData = {}
extractAddCrawlConfigOptions(output) ==
  LET p == JSONparse(output)
      first == IF IsArr(p.v) /\ Len(p.v.items) > 0 THEN p.v.items[1] ELSE Undef
      text == IF CanGet(first) THEN Get(first, "text") ELSE Undef
      pd == IF ~p.ok THEN EmptyObj
            ELSE IF IsArr(p.v) /\ Truthy(text)
                 THEN (IF JSONparse(text).ok THEN JSONparse(text).v ELSE EmptyObj)
                 ELSE p.v
  IN  IF ~CanGet(pd) \/ ~prefilledParamsOf(pd).ok
      THEN addCrawlConfigEmptyBundle
      ELSE Obj([prefilledParams |-> prefilledParamsOf(pd).v])

\* field.label.toLowerCase().replace(/\s+/g, '_') on the labels of this model
labelId(label) ==
  CASE label = "Site Name" -> "site_name"
    [] label = "Deep Crawl" -> "deep_crawl"
    [] label = "Mode" -> "mode"
    [] OTHER -> label

customField(field) ==
  LET base == [label |-> Get(field, "label"), type |-> Get(field, "type"),
               id |-> Str(labelId(Get(field, "label").s))]
      sel == base @@ [options |-> Or(Get(field, "options"), EmptyArr)]
  IN  IF IsText(Get(field, "type"), "selector")
      THEN (IF Truthy(Get(field, "default"))
            THEN Obj(sel @@ [default |-> Get(field, "default")])
            ELSE Obj(sel))
      ELSE Obj(base)

customEmptyBundle ==
  Obj([formFields |-> EmptyArr, requestId |-> Null, functionToolName |-> Null])

\* parsedData of render_custom_form: the decoded output, or the decoded
\* text of its first content block, the NOTE section cut off before decoding
customParsedData(output) ==
  LET p == JSONparse(output)
      first == IF p.ok /\ IsArr(p.v) /\ Len(p.v.items) > 0 THEN p.v.items[1] ELSE Undef
      wrapped == p.ok /\ IsArr(p.v) /\ Len(p.v.items) > 0 /\ CanGet(first)
                   /\ Truthy(Get(first, "text"))
      jsonString == IF wrapped THEN Get(first, "text") ELSE output
      direct == p.ok /\ ~wrapped /\ ~(IsArr(p.v) /\ Len(p.v.items) > 0 /\ ~CanGet(first))
  IN  IF direct /\ Truthy(p.v) THEN Ok(p.v)
      ELSE IF jsonString.k # "str" THEN Thrown
      ELSE IF jsonString.enc = "note" THEN Ok(jsonString.val)
      ELSE JSONparse(jsonString)

extractCustomOptions(output) ==
  LET p == customParsedData(output)
      fieldOk(field) == CanGet(field) /\ Get(field, "label").k = "str"
                          /\ Get(field, "label").enc = "plain"
  IN  IF \/ ~p.ok
         \/ ~CanGet(p.v)
         \/ ~Mappable(p.v, "form_fields")
         \/ \E i \in 1..Len(ListOf(p.v, "form_fields")) :
               ~fieldOk(ListOf(p.v, "form_fields")[i])
      THEN customEmptyBundle
      ELSE Obj([formFields |-> MapArr(ListOf(p.v, "form_fields"), customField),
                requestId |-> Get(p.v, "request_id"),
                functionToolName |-> Get(p.v, "function_tool_name"),
                submitInstructions |-> Or(Get(p.v, "submit_instructions"), Undef)])

\* A flattened sender that takes the group id from the sender itself
outreachSenderUngrouped(group, sender) ==
  LET details == Get(group, "company_details")
      company == IF CanGet(details) THEN Get(details, "name") ELSE Undef
  IN  Obj([id |-> Get(sender, "id"), name |-> Get(sender, "name"),
           occupation |-> Get(sender, "occupation"),
           company_name |-> Or(company, Str("Unknown Company")),
           sender_group_id |-> Or(Get(sender, "sender_group_id"), Str(""))])

\* One flattened sender: the sender's own fields plus the company name and
\* the id of the group it came from
outreachSender(group, sender) ==
  LET details == Get(group, "company_details")
      company == IF CanGet(details) THEN Get(details, "name") ELSE Undef
  IN  Obj([id |-> Get(sender, "id"), name |-> Get(sender, "name"),
           occupation |-> Get(sender, "occupation"),
           company_name |-> Or(company, Str("Unknown Company")),
           sender_group_id |-> Or(Get(group, "sender_group_id"), Str(""))])

RECURSIVE flatMapSenders(_)
flatMapSenders(groups) ==
  IF groups = <<>> THEN <<>>
  ELSE LET group == Head(groups)
           one(sender) == outreachSender(group, sender)
       IN  MapArr(ListOf(group, "senders"), one).items \o flatMapSenders(Tail(groups))

outreachList(list) ==
  Obj([id |-> Get(list, "id"), list_name |-> Get(list, "list_name"),
       leads_count |-> Or(Get(list, "leads_count"), Num(0))])

outreachCampaign(campaign) ==
  Obj([id |-> Get(campaign, "id"), name |-> Get(campaign, "name"),
       campaign_goal |-> Get(campaign, "campaign_goal"),
       description |-> Get(campaign, "description")])

outreachTemplate(template) ==
  Obj([id |-> Get(template, "id"), name |-> Get(template, "name"),
       subject_line |-> Get(template, "subject_line"), body |-> Get(template, "body")])

outreachIcp(icp) ==
  Obj([element_id |-> Get(icp, "element_id"), title |-> Get(icp, "title"),
       manual_query |-> Get(icp, "manual_query"),
       target_industry |-> Get(icp, "target_industry"),
       target_level |-> Get(icp, "target_level"),
       target_dept |-> Get(icp, "target_dept")])

outreachEmptyBundle ==
  Obj([senders |-> EmptyArr, lists |-> EmptyArr, campaigns |-> EmptyArr,
       templates |-> EmptyArr, icps |-> EmptyArr])

extractOutreachOptions(output) ==
  LET p == unwrapTextContent(output)
      groups == ListOf(p.v, "sender_group_list")
  IN  IF \/ ~p.ok
         \/ ~CanGet(p.v)
         \/ ~Mappable(p.v, "sender_group_list")
         \/ \E i \in 1..Len(groups) : ~Mappable(groups[i], "senders")
         \/ ~Mappable(p.v, "upload_list_list")
         \/ ~Mappable(p.v, "campaign_list")
         \/ ~Mappable(p.v, "email_template_list")
         \/ ~Mappable(p.v, "icp_list")
      THEN outreachEmptyBundle
      ELSE Obj([senders |-> Arr(flatMapSenders(groups)),
                lists |-> MapArr(ListOf(p.v, "upload_list_list"), outreachList),
                campaigns |-> MapArr(ListOf(p.v, "campaign_list"), outreachCampaign),
                templates |-> MapArr(ListOf(p.v, "email_template_list"), outreachTemplate),
                icps |-> MapArr(ListOf(p.v, "icp_list"), outreachIcp)])

\* The text of the given pieces
textOf(pieces) == IF pieces = <<>> THEN Str("") ELSE Markdown(pieces)

\* emailContent.replace(/^```markdown\n/, '').replace(/\n```$/, ''): an
\* opening fence at the very start goes, then a closing fence at the very
\* end
stripFence(content) ==
  LET withoutOpening(pieces) ==
        IF pieces # <<>> /\ Head(pieces) = FenceOpen THEN Tail(pieces) ELSE pieces
      withoutClosing(pieces) ==
        IF pieces # <<>> /\ pieces[Len(pieces)] = FenceClose
        THEN SubSeq(pieces, 1, Len(pieces) - 1)
        ELSE pieces
  IN  IF content.enc = "fenced" THEN Str(content.s)
      ELSE IF content.enc = "markdown"
           THEN textOf(withoutClosing(withoutOpening(content.pieces)))
           ELSE content

\* The match of /```markdown\n([\s\S]+?)\n```/ in a text of pieces: the
\* first opening fence, a body of at least one piece, and the first closing
\* fence after it
piecesMatch(pieces) ==
  LET opens == {i \in 1..Len(pieces) : pieces[i] = FenceOpen}
      first == CHOOSE i \in opens : \A k \in opens : i <= k
      closes == {j \in 1..Len(pieces) : j > first + 1 /\ pieces[j] = FenceClose}
      close == CHOOSE j \in closes : \A k \in closes : j <= k
  IN  IF opens = {} THEN Thrown
      ELSE IF closes = {} THEN Thrown
      ELSE Ok(textOf(SubSeq(pieces, first + 1, close - 1)))

\* output.match(/```markdown\n([\s\S]+?)\n```/): the JSON encoding of a text
\* escapes its newlines, so only an output that is itself the fenced text
\* matches
markdownMatch(output) ==
  IF output.enc = "fenced" THEN Ok(Str(output.s))
  ELSE IF output.enc = "markdown" THEN piecesMatch(output.pieces)
  ELSE Thrown

\* emailContent of email_sme_questions_form
emailContentOf(output) ==
  LET fallback(assigned) ==
        IF markdownMatch(output).ok THEN markdownMatch(output).v ELSE assigned
      outer == JSONparse(output)
  IN  IF ~outer.ok THEN fallback(Str(""))
      ELSE IF ~(IsArr(outer.v) /\ Len(outer.v.items) > 0) THEN Str("")
      ELSE IF ~CanGet(outer.v.items[1]) THEN fallback(Str(""))
      ELSE IF ~Truthy(Get(outer.v.items[1], "text")) THEN Str("")
      ELSE LET inner == JSONparse(Get(outer.v.items[1], "text"))
           IN  IF ~inner.ok THEN fallback(Str(""))
               ELSE IF ~(IsArr(inner.v) /\ Len(inner.v.items) > 0) THEN Str("")
               ELSE IF ~CanGet(inner.v.items[1]) THEN fallback(Str(""))
               ELSE LET content == Get(inner.v.items[1], "output")
                    IN  IF ~Truthy(content) THEN Str("")
                        ELSE IF content.k # "str" THEN fallback(content)
                        ELSE stripFence(content)

SubmitInstructionsEmail == Str("After you submit this form, the brevo_send_email tool will be used")

extractEmailSmeOptions(output) ==
  Obj([formFields |->
         Arr(<<Obj([label |-> Str("Recipient Email"), type |-> Str("email"),
                    id |-> Str("recipient_email"), default |-> Str("")]),
               Obj([label |-> Str("Email Content"), type |-> Str("textarea"),
                    id |-> Str("email_content"), default |-> emailContentOf(output),
                    rows |-> Num(15)])>>),
       requestId |-> Null,
       functionToolName |-> Str("email_sme_questions_form"),
       submitInstructions |-> SubmitInstructionsEmail])

serviceAccount(sa) == Obj([id |-> Get(sa, "id"), email |-> Get(sa, "email")])

keywordWebsite(ws) ==
  Obj([id |-> Get(ws, "id"), name |-> Get(ws, "name"), url |-> Get(ws, "url")])

DefaultKeywordSources == Arr(<<Str("gsc"), Str("dataforseo")>>)

siteKeywordEmptyBundle ==
  Obj([serviceAccounts |-> EmptyArr, websites |-> EmptyArr, keywordSources |-> EmptyArr])

extractSiteKeywordOptions(output) ==
  LET p == unwrapTextContent(output)
  IN  IF \/ ~p.ok
         \/ ~CanGet(p.v)
         \/ ~Mappable(p.v, "service_accounts_list")
         \/ ~Mappable(p.v, "websites_list")
      THEN siteKeywordEmptyBundle
      ELSE Obj([serviceAccounts |-> MapArr(ListOf(p.v, "service_accounts_list"), serviceAccount),
                websites |-> MapArr(ListOf(p.v, "websites_list"), keywordWebsite),
                keywordSources |-> Or(Get(p.v, "keywords_sources_list"), DefaultKeywordSources)])

keywordClusterEmptyBundle == Obj([websites |-> EmptyArr])

extractKeywordClusterOptions(output) ==
  LET p == unwrapTextContent(output)
  IN  IF ~p.ok \/ ~CanGet(p.v) \/ ~Mappable(p.v, "websites_list")
      THEN keywordClusterEmptyBundle
      ELSE Obj([websites |-> MapArr(ListOf(p.v, "websites_list"), keywordWebsite)])

\* The keys of MCP_TOOL_CONFIGS; every entry has triggerForm: true
ConfiguredTools ==
  {"render_crawl_form", "render_add_crawl_config_form", "render_custom_form",
   "render_outreach_generate_form", "email_sme_questions_form",
   "render_load_site_keyword_data_form", "render_load_keyword_cluster_form"}

\* MCP_TOOL_CONFIGS[function_name].formType
formTypeOf(function_name) ==
  CASE function_name = "render_crawl_form" -> "crawl"
    [] function_name = "render_add_crawl_config_form" -> "add_crawl_config"
    [] function_name = "render_custom_form" -> "custom"
    [] function_name = "render_outreach_generate_form" -> "outreach"
    [] function_name = "email_sme_questions_form" -> "custom"
    [] function_name = "render_load_site_keyword_data_form" -> "site_keyword"
    [] function_name = "render_load_keyword_cluster_form" -> "keyword_cluster"

\* MCP_TOOL_CONFIGS[function_name].extractOptions(output)
extractOptions(function_name, output) ==
  CASE function_name = "render_crawl_form" -> extractCrawlOptions(output)
    [] function_name = "render_add_crawl_config_form" -> extractAddCrawlConfigOptions(output)
    [] function_name = "render_custom_form" -> extractCustomOptions(output)
    [] function_name = "render_outreach_generate_form" -> extractOutreachOptions(output)
    [] function_name = "email_sme_questions_form" -> extractEmailSmeOptions(output)
    [] function_name = "render_load_site_keyword_data_form" -> extractSiteKeywordOptions(output)
    [] function_name = "render_load_keyword_cluster_form" -> extractKeywordClusterOptions(output)

\* The value each extractor returns from its catch block
emptyBundle(function_name) ==
  CASE function_name = "render_crawl_form" -> crawlEmptyBundle
    [] function_name = "render_add_crawl_config_form" -> addCrawlConfigEmptyBundle
    [] function_name = "render_custom_form" -> customEmptyBundle
    [] function_name = "render_outreach_generate_form" -> outreachEmptyBundle
    [] function_name = "email_sme_questions_form" -> customEmptyBundle
    [] function_name = "render_load_site_keyword_data_form" -> siteKeywordEmptyBundle
    [] function_name = "render_load_keyword_cluster_form" -> keywordClusterEmptyBundle

\* hasValidOptions of the trigger effect
hasValidOptions(options) ==
  IF IsArr(options) THEN Len(options.items) > 0
  ELSE /\ Truthy(options)
       /\ options.k = "obj"
       /\ DOMAIN options.f # {}
       /\ \E key \in DOMAIN options.f :
            LET val == options.f[key]
            IN  IF IsArr(val) THEN Len(val.items) > 0 ELSE Truthy(val)

(***************************************************************************)
(* MCPToolDetector: props and the values memoised from them.  Names and    *)
(* ids are texts, modelled as sequences of tokens so that joining them     *)
(* with '-' is concatenation.                                              *)
(***************************************************************************)

\* Constants.mcp_delimiter as a token of a tool name
Delim == "_mcp_"

firstDelim(name) ==
  IF \E i \in 1..Len(name) : name[i] = Delim
  THEN CHOOSE i \in 1..Len(name) : name[i] = Delim /\ \A j \in 1..(i - 1) : name[j] # Delim
  ELSE Len(name) + 1

\* { function_name, serverName, isMCPToolCall } of toolCall.name; a missing
\* name is the empty text; split() gives the pieces before the first and
\* between the first and the second delimiter
parseToolName(name) ==
  IF name = <<>>
  THEN [function_name |-> <<>>, serverName |-> <<>>, isMCPToolCall |-> FALSE]
  ELSE IF firstDelim(name) <= Len(name)
       THEN LET i == firstDelim(name)
                rest == SubSeq(name, i + 1, Len(name))
            IN  [function_name |-> SubSeq(name, 1, i - 1),
                 serverName |-> SubSeq(rest, 1, firstDelim(rest) - 1),
                 isMCPToolCall |-> TRUE]
       ELSE [function_name |-> name, serverName |-> <<>>, isMCPToolCall |-> FALSE]

NoConfig == "null"

\* toolConfig: the key of the matching MCP_TOOL_CONFIGS entry, or null
toolConfigOf(name) ==
  LET t == parseToolName(name)
  IN  IF t.isMCPToolCall /\ Len(t.function_name) = 1 /\ t.function_name[1] \in ConfiguredTools
      THEN t.function_name[1]
      ELSE NoConfig

\* The literal text of the pattern /request_id::([a-f0-9-]+)/, as one piece
\* of an output
Marker == "request_id::"

\* The pieces of an output that consist of characters of [a-f0-9-]; every
\* other piece begins with a character outside that class
HexPieces == {"abc", "123", "def", "-"}

\* The longest run of pieces of the class that starts at position i
RECURSIVE runFrom(_, _)
runFrom(pieces, i) ==
  IF i <= Len(pieces) /\ pieces[i] \in HexPieces
  THEN <<pieces[i]>> \o runFrom(pieces, i + 1)
  ELSE <<>>

\* output.match(/request_id::([a-f0-9-]+)/)[1]: the capture at the first
\* place where the marker is followed by at least one character of the
\* class, or no match (the empty text)
requestMatch(pieces) ==
  LET hits == {i \in 1..(Len(pieces) - 1) : pieces[i] = Marker /\ pieces[i + 1] \in HexPieces}
  IN  IF hits = {} THEN <<>>
      ELSE runFrom(pieces, 1 + CHOOSE i \in hits : \A j \in hits : i <= j)

\* requestId: what the pattern captures in the output, or null (the empty
\* text) when the output is falsy or has no match
requestIdOf(output) == IF ~Truthy(output.text) THEN <<>> ELSE requestMatch(output.pieces)

\* conversationId || 'no-conv'
convKey(conversationId) == IF conversationId = <<>> THEN <<"no-conv">> ELSE conversationId

\* The message-based id alone, whatever the output holds
formIdByMessage(p) ==
  convKey(p.conversationId) \o <<"-">>
    \o (IF p.messageId = <<>> THEN <<"no-msg">> ELSE p.messageId)
    \o <<"-">> \o parseToolName(p.toolName).function_name

\* formId
formIdOf(p) ==
  IF requestIdOf(p.output) # <<>>
  THEN convKey(p.conversationId) \o <<"-">> \o requestIdOf(p.output)
  ELSE convKey(p.conversationId) \o <<"-">>
         \o (IF p.messageId = <<>> THEN <<"no-msg">> ELSE p.messageId)
         \o <<"-">> \o parseToolName(p.toolName).function_name

\* submittedForms[formId] || { isSubmitted: false }
formStateOf(forms, id) == IF id \in DOMAIN forms THEN forms[id] ELSE [isSubmitted |-> FALSE]

\* a boolean property of a form state that may lack it
Flag(state, key) == key \in DOMAIN state /\ state[key]

\* How many instances of one detector are mounted in a run
MaxMounts == 2

(***************************************************************************)
(* State                                                                   *)
(***************************************************************************)
VARIABLES
  props,          \* detector -> the toolCall name, output and message context it is rendered with
  submittedForms, \* the submittedFormsState atom: formId -> record
  isChatBlocked,  \* the isChatBlockedState atom: conversation key -> boolean
  mounted,        \* detector -> whether an instance of it is mounted
  instance,       \* detector -> number of instances mounted so far
  thisFormState,  \* detector -> thisFormState of the instance's last render
  stale,          \* detector -> what changed in submittedForms since that render
  isSubmitting,   \* detector -> isSubmitting of the mounted form instance
  calls,          \* the forms' handleSubmit invocations that await a fetch
  awaiting,       \* handler invocations that await submitMessage
  outbox,         \* the texts given to submitMessage, in order
  lockCalls,      \* formId -> how often its detectors called setChatBlocked with true / false
  deletes,        \* the delete calls of AddCrawlConfigForm that settled: config id and answer
  blank,          \* detector -> the inputs of its form the user leaves empty
  rejected,       \* detector -> how often handleSubmit of its form returned at the validation
  setterCalls,    \* the setters the last trigger effect that opened a form called, in order
  heard,          \* detector -> the callbacks (submit, cancel) its mounted form instance has called
  xofuLoginForm,  \* XofuLoginForm: formData, isSubmitting, error, its fetch, what onSubmit was given
  xofuLogin,      \* the POST /xofu/login handler: req, the upstream call, res
  crawlForm,      \* CrawlForm: its option props, prefilledParams and formData
  mermaidPreview  \* MermaidPreview: zoom, pan and the drag under way

vars == <<props, submittedForms, isChatBlocked, mounted, instance, thisFormState, stale,
          isSubmitting, calls, awaiting, outbox, lockCalls, deletes, blank, rejected,
          setterCalls, heard, xofuLoginForm, xofuLogin, crawlForm, mermaidPreview>>

\* The components that are rendered apart from the detectors
components == <<xofuLoginForm, xofuLogin, crawlForm, mermaidPreview>>

\* A component that a run does not render, a route it does not call
Absent == "absent"

\* The detectors' state
detectorVars == <<props, submittedForms, isChatBlocked, mounted, instance, thisFormState, stale,
                  isSubmitting, calls, awaiting, outbox, lockCalls, deletes, blank, rejected,
                  setterCalls, heard>>

Detectors == DOMAIN props
toolConfig(d) == toolConfigOf(props[d].toolName)
formId(d) == formIdOf(props[d])
\* Every detector on the shared key
conversationShared(d) == <<"no-conv">>

conversation(d) == convKey(props[d].conversationId)

\* A setter that stores the record without spreading prev
withFormAlone(forms, id, record) == [x \in {id} |-> record]

\* setSubmittedForms((prev) => ({ ...prev, [id]: record }))
withForm(forms, id, record) ==
  [x \in DOMAIN forms \cup {id} |-> IF x = id THEN record ELSE forms[x]]

\* A setter that flips the flag it finds already at the value
withBlockedFlipped(blocked, conv, value) ==
  [x \in DOMAIN blocked \cup {conv} |->
     IF x # conv THEN blocked[x]
     ELSE IF conv \in DOMAIN blocked /\ blocked[conv] = value THEN ~value
     ELSE value]

\* setChatBlocked((prev) => ({ ...prev, [conv]: value }))
withBlocked(blocked, conv, value) ==
  [x \in DOMAIN blocked \cup {conv} |-> IF x = conv THEN value ELSE blocked[x]]

\* The chat input of a conversation is disabled
Blocked(conv) == conv \in DOMAIN isChatBlocked /\ isChatBlocked[conv]

\* What a write to the entry of id means for the instances that render
\* from the atom: each mounted one renders again, and the one whose formId
\* was written gets a new thisFormState object
staleAfter(st, mnt, id) ==
  [e \in DOMAIN st |->
     IF ~mnt[e] THEN st[e]
     ELSE IF formId(e) = id \/ st[e] = "entry" THEN "entry"
     ELSE "atom"]

counted(log, id, what) ==
  [log EXCEPT ![id] = [@ EXCEPT ![what] = @ + 1]]

(***************************************************************************)
(* The effects of MCPToolDetector                                          *)
(***************************************************************************)

\* The trigger effect passes its early return and finds valid options
triggersForm(d) ==
  /\ toolConfig(d) # NoConfig
  /\ Truthy(props[d].output.text)
  /\ hasValidOptions(extractOptions(toolConfig(d), props[d].output.text))

\* The record the trigger effect stores
pendingRecord(d) ==
  [isSubmitted |-> FALSE,
   isCancelled |-> FALSE,
   toolName |-> parseToolName(props[d].toolName).function_name,
   serverName |-> parseToolName(props[d].toolName).serverName,
   requestId |-> requestIdOf(props[d].output),
   options |-> extractOptions(toolConfig(d), props[d].output.text),
   output |-> props[d].output,
   formType |-> formTypeOf(toolConfig(d))]

\* The cleanup condition with the test of isSubmitted inverted
cleanupUnblocksInverted(d, state) == toolConfig(d) # NoConfig /\ Flag(state, "isSubmitted")

\* The condition under which the cleanup of the second effect unblocks the
\* chat; state is the thisFormState its closure holds
cleanupUnblocks(d, state) == toolConfig(d) # NoConfig /\ ~Flag(state, "isSubmitted")

\* The atoms after the cleanup ran with that closure
blockedAfterCleanup(d, state) ==
  IF cleanupUnblocks(d, state)
  THEN withBlocked(isChatBlocked, conversation(d), FALSE)
  ELSE isChatBlocked

lockCallsAfterCleanup(d, state) ==
  IF cleanupUnblocks(d, state) THEN counted(lockCalls, formId(d), "release") ELSE lockCalls

\* The setter calls of the trigger effect after hasValidOptions, with the
\* record's setter called first
triggerSettersRecordFirst == <<"setSubmittedForms", "setChatBlocked">>

\* The setter calls of the trigger effect after hasValidOptions, in the
\* order of the code: "Block chat when form is shown", then "Store the
\* form state"
triggerSetters == <<"setChatBlocked", "setSubmittedForms">>

\* A detector is mounted: first render, then the trigger effect, then the
\* second effect registers its cleanup with the thisFormState of this render
Mount(d) ==
  /\ ~mounted[d]
  /\ instance[d] < MaxMounts
  /\ mounted' = [mounted EXCEPT ![d] = TRUE]
  /\ instance' = [instance EXCEPT ![d] = @ + 1]
  /\ thisFormState' = [thisFormState EXCEPT ![d] = formStateOf(submittedForms, formId(d))]
  /\ isSubmitting' = [isSubmitting EXCEPT ![d] = FALSE]
  /\ IF triggersForm(d)
     THEN /\ isChatBlocked' = withBlocked(isChatBlocked, conversation(d), TRUE)
          /\ submittedForms' = withForm(submittedForms, formId(d), pendingRecord(d))
          /\ stale' = staleAfter(stale, mounted', formId(d))
          /\ lockCalls' = counted(lockCalls, formId(d), "acquire")
          /\ setterCalls' = triggerSetters
     ELSE UNCHANGED <<isChatBlocked, submittedForms, stale, lockCalls, setterCalls>>
  /\ UNCHANGED <<props, components, heard, deletes, blank, rejected, calls, awaiting, outbox>>

\* A mounted detector renders again because submittedForms changed.  The
\* trigger effect's dependencies are the same, so it does not run; the
\* second effect's dependency thisFormState is a new object when the entry
\* of formId was written, or when there is none and the fallback literal is
\* evaluated again: then the old cleanup runs with the old closure.
Rerender(d) ==
  /\ mounted[d]
  /\ stale[d] # "fresh"
  /\ LET changed == stale[d] = "entry" \/ formId(d) \notin DOMAIN submittedForms
     IN  /\ isChatBlocked' =
              IF changed THEN blockedAfterCleanup(d, thisFormState[d]) ELSE isChatBlocked
         /\ lockCalls' =
              IF changed THEN lockCallsAfterCleanup(d, thisFormState[d]) ELSE lockCalls
  /\ thisFormState' = [thisFormState EXCEPT ![d] = formStateOf(submittedForms, formId(d))]
  /\ stale' = [stale EXCEPT ![d] = "fresh"]
  /\ UNCHANGED <<props, components, setterCalls, heard, deletes, blank, rejected, submittedForms, mounted, instance, isSubmitting, calls, awaiting, outbox>>

\* A mounted detector is unmounted: the cleanup runs with the closure of
\* the last render
Unmount(d) ==
  /\ mounted[d]
  /\ mounted' = [mounted EXCEPT ![d] = FALSE]
  /\ isChatBlocked' = blockedAfterCleanup(d, thisFormState[d])
  /\ lockCalls' = lockCallsAfterCleanup(d, thisFormState[d])
  /\ thisFormState' = [thisFormState EXCEPT ![d] = [isSubmitted |-> FALSE]]
  /\ stale' = [stale EXCEPT ![d] = "fresh"]
  /\ isSubmitting' = [isSubmitting EXCEPT ![d] = FALSE]
  /\ heard' = [heard EXCEPT ![d] = {}]
  /\ UNCHANGED <<props, components, setterCalls, deletes, blank, rejected, submittedForms, instance, calls, awaiting, outbox>>

(***************************************************************************)
(* handleFormSubmit and handleFormCancel                                   *)
(***************************************************************************)

\* list?.find((x) => x.id === id)
findById(list, id) ==
  IF IsArr(list) /\ \E i \in 1..Len(list.items) : Get(list.items[i], "id") = id
  THEN list.items[CHOOSE i \in 1..Len(list.items) :
                    /\ Get(list.items[i], "id") = id
                    /\ \A j \in 1..(i - 1) : Get(list.items[j], "id") # id]
  ELSE Undef

\* (thisFormState as any).options || {}
optionsOf(state) == IF "options" \in DOMAIN state THEN Or(state.options, EmptyObj) ELSE EmptyObj

websiteLabelOf(options, data) ==
  LET website == findById(Get(options, "websites"), Get(data, "website_id"))
  IN  IF Truthy(website)
      THEN Template("name (url)", <<Get(website, "name"), Get(website, "url")>>)
      ELSE Get(data, "website_id")

crawlConfigLabelOf(options, data) ==
  LET config == findById(Get(options, "crawlConfigs"), Get(data, "crawl_config_id"))
  IN  IF Truthy(config) THEN Get(config, "name")
      ELSE IF IsText(Get(data, "crawl_config_id"), "default") THEN Str("Default Configuration")
      ELSE Get(data, "crawl_config_id")

\* submittedDataWithLabels
submittedDataWithLabels(formType, state, data) ==
  LET options == optionsOf(state)
  IN  CASE formType = "outreach" ->
             LET sender == findById(Get(options, "senders"), Get(data, "sender_id"))
                 list == findById(Get(options, "lists"), Get(data, "list_id"))
                 campaign == findById(Get(options, "campaigns"), Get(data, "campaign_id"))
                 template == findById(Get(options, "templates"), Get(data, "template_id"))
             IN  Obj([senderLabel |->
                        IF Truthy(sender)
                        THEN Template("name (occupation) at company",
                                      <<Get(sender, "name"),
                                        Or(Get(sender, "occupation"), Str("No title")),
                                        Get(sender, "company_name")>>)
                        ELSE Undef,
                      listLabel |->
                        IF Truthy(list)
                        THEN Template("list (n contacts)",
                                      <<Get(list, "list_name"), Get(list, "leads_count")>>)
                        ELSE Undef,
                      campaignLabel |-> Get(campaign, "name"),
                      templateLabel |-> Get(template, "name")] @@ data.f)
        [] formType = "crawl" ->
             Obj([websiteLabel |-> websiteLabelOf(options, data),
                  crawlConfigLabel |-> crawlConfigLabelOf(options, data)] @@ data.f)
        [] formType = "add_crawl_config" ->
             Obj([fileName |-> Get(Get(data, "file"), "name")] @@ data.f)
        [] OTHER -> data

\* Which of the words a status line is chosen by occur in a text
wordsIn(text) ==
  CASE text = "Crawl operation created successfully" -> {"successfully", "created"}
    [] text = "Internal Server Error" -> {"Error"}
    [] text = "Request failed" -> {"failed"}
    [] text = "error" -> {"error"}
    [] text = "if_lg" -> {"if_lg"}
    [] OTHER -> {}

\* The words that occur in JSON.stringify(v), or in v itself when it is a
\* string: those of its keys and of the texts in it
RECURSIVE wordsOf(_)
wordsOf(v) ==
  CASE v.k = "str" -> (IF v.enc \in {"plain", "fenced"} THEN wordsIn(v.s)
                       ELSE IF v.enc = "template"
                            THEN UNION {wordsOf(v.parts[i]) : i \in 1..Len(v.parts)}
                            ELSE wordsOf(v.val))
    [] v.k = "arr" -> UNION {wordsOf(v.items[i]) : i \in 1..Len(v.items)}
    [] v.k = "obj" -> UNION {wordsIn(key) \cup wordsOf(v.f[key]) : key \in DOMAIN v.f}
    [] OTHER -> {}

NoStatus == [status |-> "none", error |-> Undef]
Status(status) == [status |-> status, error |-> Undef]
Failed(error) == [status |-> "Failed", error |-> error]

\* data.toolResponse?.result
resultOf(data) ==
  IF CanGet(Get(data, "toolResponse")) THEN Get(Get(data, "toolResponse"), "result") ELSE Undef

\* data.toolResponse?.error
errorOf(data) ==
  IF CanGet(Get(data, "toolResponse")) THEN Get(Get(data, "toolResponse"), "error") ELSE Undef

\* resultInfo of the crawl, site_keyword and keyword_cluster messages: the
\* stringified result is searched for the type's success words, then for
\* its error words
wordStatus(data, success, failure) ==
  LET result == resultOf(data)
  IN  IF ~Truthy(result) THEN NoStatus
      ELSE IF wordsOf(result) \cap success # {} THEN Status("success")
      ELSE IF wordsOf(result) \cap failure # {} THEN Failed(result)
      ELSE Status("completed")

\* resultInfo of the add_crawl_config message
addCrawlConfigStatus(data) ==
  LET result == resultOf(data)
      configData == IF IsStr(result) THEN JSONparse(result) ELSE Ok(result)
  IN  IF Truthy(result)
      THEN (IF ~configData.ok \/ ~CanGet(configData.v) THEN Status("created")
            ELSE IF Truthy(Get(configData.v, "id")) THEN Status("success")
            ELSE NoStatus)
      ELSE IF Truthy(errorOf(data)) THEN Failed(errorOf(data))
      ELSE NoStatus

\* operationInfo of the outreach message; reading the ids of a successful
\* operation that carries no data throws, and the catch reports the result
outreachStatus(data) ==
  LET raw == resultOf(data)
      result == IF IsStr(raw) THEN JSONparse(raw) ELSE Ok(raw)
      pm == IF result.ok /\ CanGet(result.v) THEN Get(result.v, "if_pm") ELSE Undef
      op == IF CanGet(pm) THEN Get(pm, "create_sequential_operation") ELSE Undef
      success == IF CanGet(op) THEN Get(op, "success") ELSE Undef
  IN  IF ~Truthy(raw) THEN NoStatus
      ELSE IF ~result.ok \/ ~CanGet(result.v) THEN Failed(raw)
      ELSE IF Truthy(success)
           THEN (IF CanGet(Get(op, "data")) THEN Status("success") ELSE Failed(raw))
      ELSE IF success = Bool(FALSE) THEN Failed(Or(Get(op, "error"), Str("Unknown error")))
      ELSE Failed(result.v)

statusOf(formType, data) ==
  CASE formType = "crawl" -> wordStatus(data, {"successfully", "created", "crawl"}, {"error", "Error"})
    [] formType = "add_crawl_config" -> addCrawlConfigStatus(data)
    [] formType = "outreach" -> outreachStatus(data)
    [] formType = "site_keyword" ->
         wordStatus(data, {"successfully", "created", "if_lg"}, {"error", "Error", "failed"})
    [] formType = "keyword_cluster" ->
         wordStatus(data, {"successfully", "created", "cluster"}, {"error", "Error"})
    [] OTHER -> NoStatus

\* message of handleFormSubmit: the form type's template and its status line
submitText(formType, state, data) ==
  [kind |-> "submit", form |-> formType, info |-> statusOf(formType, data)]

\* The fixed text of handleFormCancel
CancelText == [kind |-> "cancel", form |-> "none", info |-> NoStatus]

\* The write without the spread of the record that is there
changesAlone(forms, id, changes) == changes

\* { ...prev[formId], ...changes }
spreadOver(forms, id, changes) == changes @@ (IF id \in DOMAIN forms THEN forms[id] ELSE <<>>)

\* handleFormSubmit(data) of the render whose thisFormState was state: the
\* record is marked, the message is built and given to submitMessage, and
\* the handler awaits it
handleFormSubmit(d, inst, state, data) ==
  LET formType == formTypeOf(toolConfig(d))
  IN  /\ submittedForms' =
           withForm(submittedForms, formId(d),
                    spreadOver(submittedForms, formId(d),
                               [isSubmitted |-> TRUE,
                                submittedData |-> submittedDataWithLabels(formType, state, data)]))
      /\ stale' = staleAfter(stale, mounted, formId(d))
      /\ outbox' = Append(outbox, [by |-> formId(d)] @@ submitText(formType, state, data))
      /\ awaiting' = [awaiting EXCEPT ![d] = [@ EXCEPT !.submit = @ + 1]]
      /\ heard' = IF mounted[d] /\ inst = instance[d]
                  THEN [heard EXCEPT ![d] = @ \cup {"submit"}]
                  ELSE heard

\* A cancel handler that removes the record instead of marking it
handleFormCancelRemoving(d) ==
  /\ submittedForms' = [x \in DOMAIN submittedForms \ {formId(d)} |-> submittedForms[x]]
  /\ stale' = staleAfter(stale, mounted, formId(d))
  /\ outbox' = Append(outbox, [by |-> formId(d)] @@ CancelText)
  /\ awaiting' = [awaiting EXCEPT ![d] = [@ EXCEPT !.cancel = @ + 1]]
  /\ heard' = [heard EXCEPT ![d] = @ \cup {"cancel"}]

\* handleFormCancel()
handleFormCancel(d) ==
  /\ submittedForms' =
       withForm(submittedForms, formId(d),
                spreadOver(submittedForms, formId(d),
                           [isSubmitted |-> FALSE, isCancelled |-> TRUE]))
  /\ stale' = staleAfter(stale, mounted, formId(d))
  /\ outbox' = Append(outbox, [by |-> formId(d)] @@ CancelText)
  /\ awaiting' = [awaiting EXCEPT ![d] = [@ EXCEPT !.cancel = @ + 1]]
  /\ heard' = [heard EXCEPT ![d] = @ \cup {"cancel"}]

\* submitMessage resolves: the handler goes on to unblock the chat
MessageResolves(d, kind) ==
  /\ awaiting[d][kind] > 0
  /\ awaiting' = [awaiting EXCEPT ![d] = [@ EXCEPT ![kind] = @ - 1]]
  /\ isChatBlocked' = withBlocked(isChatBlocked, conversation(d), FALSE)
  /\ lockCalls' = counted(lockCalls, formId(d), "release")
  /\ UNCHANGED <<props, components, setterCalls, heard, deletes, blank, rejected, submittedForms, mounted, instance, thisFormState, stale, isSubmitting,
                 calls, outbox>>

\* submitMessage rejects: the handler ends there
MessageRejects(d, kind) ==
  /\ awaiting[d][kind] > 0
  /\ awaiting' = [awaiting EXCEPT ![d] = [@ EXCEPT ![kind] = @ - 1]]
  /\ UNCHANGED <<props, components, setterCalls, heard, deletes, blank, rejected, submittedForms, isChatBlocked, mounted, instance, thisFormState, stale,
                 isSubmitting, calls, outbox, lockCalls>>

(***************************************************************************)
(* The forms: what the user can do, and their handleSubmit                 *)
(***************************************************************************)

\* Controls that are not disabled while handleSubmit is running
formInteractiveWhileSubmitting(d) ==
  /\ mounted[d]
  /\ stale[d] = "fresh"
  /\ toolConfig(d) # NoConfig
  /\ ~Flag(thisFormState[d], "isCancelled")
  /\ ~(Flag(thisFormState[d], "isSubmitted") /\ "submittedData" \in DOMAIN thisFormState[d])

\* The detector rendered a form whose Cancel and Submit controls work: the
\* form did not return its cancelled or its submitted view, no handleSubmit
\* of this instance is running, and no render is outstanding
formInteractive(d) ==
  /\ mounted[d]
  /\ stale[d] = "fresh"
  /\ toolConfig(d) # NoConfig
  /\ ~Flag(thisFormState[d], "isCancelled")
  /\ ~(Flag(thisFormState[d], "isSubmitted") /\ "submittedData" \in DOMAIN thisFormState[d])
  /\ ~isSubmitting[d]

\* formData of a form the user filled in completely
formDataOf(formType) ==
  CASE formType = "crawl" ->
         [website_id |-> Str("w1"), launch_date |-> Str("2025-01-01"),
          description |-> Str("weekly"), crawl_config_id |-> Str("default")]
    [] formType = "add_crawl_config" ->
         [name |-> Str("cfg"), description |-> Str(""),
          file |-> Obj([name |-> Str("cfg.json")])]
    [] formType = "outreach" ->
         [sender_id |-> Str("s1"), sender_group_id |-> Str("g1"), campaign_id |-> Str("c1"),
          template_id |-> Str("t1"), audience_type |-> Str("manual"),
          manual_urls |-> Str("https://linkedin.com/in/a")]
    [] formType = "site_keyword" ->
         [keywords_source |-> Str("dataforseo"), website_id |-> Str("w1")]
    [] formType = "keyword_cluster" -> [website_id |-> Str("w1")]
    [] OTHER -> [answer |-> Str("yes")]

\* The 2xx bodies the tool endpoint answers with
okBodies(formType) ==
  CASE formType = "outreach" ->
         {Obj([result |-> JsonText(Obj([if_pm |-> Obj([create_sequential_operation |->
                  Obj([success |-> Bool(TRUE),
                       data |-> Obj([mainOpId |-> Str("op1"), outreachOpId |-> Str("op2")])])])]))]),
          Obj([result |-> Str("Internal Server Error")]),
          Obj([result |-> Str("queued")])}
    [] formType = "add_crawl_config" ->
         {Obj([result |-> JsonText(Obj([id |-> Str("cfg1"), upload_url |-> Str("https://x")]))]),
          Obj([result |-> Obj([id |-> Str("cfg1")])]),
          Obj([result |-> Str("not json")])}
    [] OTHER ->
         {Obj([result |-> Str("Crawl operation created successfully")]),
          Obj([result |-> Str("queued")])}

\* error.message of the Error a failed fetch ends in
FetchError == Str("HTTP error! status: 500")
UploadError == Str("Upload failed: 500")
NoUploadUrlError == Str("No upload URL received from server")
ParseError == Str("Failed to parse server response")

withToolResponse(formType, toolResponse) ==
  Obj([toolResponse |-> toolResponse] @@ formDataOf(formType))

\* finally { setIsSubmitting(false) }: it reaches the form instance that
\* started the call, if that is still mounted
submittingAfter(c) ==
  IF mounted[c.d] /\ instance[c.d] = c.inst
  THEN [isSubmitting EXCEPT ![c.d] = FALSE]
  ELSE isSubmitting

\* The selects of the form offer the user what its validation asks for:
\* the text, date and file inputs can always be filled, a select only from
\* the options of this render
isFormValid(d) ==
  LET options == optionsOf(thisFormState[d])
      offers(key) == IsArr(Get(options, key)) /\ Len(Get(options, key).items) > 0
  IN  CASE formTypeOf(toolConfig(d)) \in {"crawl", "site_keyword", "keyword_cluster"} ->
             offers("websites")
        [] formTypeOf(toolConfig(d)) = "outreach" ->
             offers("senders") /\ offers("campaigns") /\ offers("templates")
        [] OTHER -> TRUE

\* formData of CustomForm: one entry per form field
customFormData(d) ==
  LET formFields == Get(optionsOf(thisFormState[d]), "formFields")
  IN  IF IsArr(formFields) /\ Len(formFields.items) > 0
      THEN Obj(formDataOf("custom"))
      ELSE EmptyObj

\* The user presses Cancel
ClickCancel(d) ==
  /\ formInteractive(d)
  /\ handleFormCancel(d)
  /\ UNCHANGED <<props, components, setterCalls, deletes, blank, rejected, isChatBlocked, mounted, instance, thisFormState, isSubmitting, calls,
                 lockCalls>>

\* How often an early return of one form's handleSubmit is counted
MaxRejected == 1

\* The inputs the validation at the head of the form's handleSubmit asks
\* for; CustomForm asks for every field it shows
inputsAsked(formType) ==
  CASE formType = "crawl" -> {"website_id", "launch_date", "description", "crawl_config_id"}
    [] formType = "site_keyword" -> {"keywords_source", "website_id"}
    [] formType = "keyword_cluster" -> {"website_id"}
    [] formType = "add_crawl_config" -> {"file", "name"}
    [] formType = "outreach" -> {"sender_id", "manual_urls", "campaign_id", "template_id"}
    [] OTHER -> {"answer"}

requiredFields(d) ==
  IF formTypeOf(toolConfig(d)) = "custom" /\ customFormData(d) = EmptyObj
  THEN {}
  ELSE inputsAsked(formTypeOf(toolConfig(d)))

\* A validation that lets everything through
validatesAnything(d, empty) == TRUE

\* The validation at the head of handleSubmit passes: none of the inputs
\* it asks for is empty
validates(d, empty) == requiredFields(d) \cap empty = {}

\* The user presses Submit on a form whose selects offer what it asks for.
\* handleSubmit returns at once when an input it asks for is empty.
\* CustomForm calls onSubmit at once; the other forms first call their tool
ClickSubmit(d) ==
  /\ formInteractive(d)
  /\ isFormValid(d)
  /\ LET formType == formTypeOf(toolConfig(d))
     IN  IF ~validates(d, blank[d])
         THEN /\ rejected[d] < MaxRejected
              /\ rejected' = [rejected EXCEPT ![d] = @ + 1]
              /\ UNCHANGED <<submittedForms, stale, outbox, awaiting, heard, calls, isSubmitting>>
         ELSE /\ UNCHANGED rejected
              /\ IF formType = "custom"
                 THEN /\ handleFormSubmit(d, instance[d], thisFormState[d], customFormData(d))
                      /\ UNCHANGED <<calls, isSubmitting>>
                 ELSE /\ calls' = calls \cup
                            {[d |-> d, inst |-> instance[d], state |-> thisFormState[d],
                              phase |-> IF formType = "add_crawl_config" THEN "create" ELSE "call",
                              configId |-> Undef, configData |-> Undef, failure |-> Undef]}
                      /\ isSubmitting' = [isSubmitting EXCEPT ![d] = TRUE]
                      /\ UNCHANGED <<submittedForms, stale, outbox, awaiting, heard>>
  /\ UNCHANGED <<props, components, setterCalls, deletes, blank, isChatBlocked, mounted, instance, thisFormState, lockCalls>>

\* The catch block of a form's handleSubmit: OutreachForm only logs, the
\* other forms pass the error on through onSubmit
formCatch(c, error) ==
  LET formType == formTypeOf(toolConfig(c.d))
  IN  IF formType = "outreach"
      THEN UNCHANGED <<submittedForms, stale, outbox, awaiting, heard>>
      ELSE handleFormSubmit(c.d, c.inst, c.state,
                            withToolResponse(formType, Obj([error |-> error])))

\* The tool call of a form fails: a non-2xx answer or a network error
FetchFails(c) ==
  /\ c \in calls
  /\ c.phase \in {"call", "create"}
  /\ calls' = calls \ {c}
  /\ isSubmitting' = submittingAfter(c)
  /\ formCatch(c, FetchError)
  /\ UNCHANGED <<props, components, setterCalls, deletes, blank, rejected, isChatBlocked, mounted, instance, thisFormState, lockCalls>>

\* The tool call of the crawl, outreach, site keyword or keyword cluster
\* form is answered 2xx
FetchSucceeds(c, body) ==
  /\ c \in calls
  /\ c.phase = "call"
  /\ body \in okBodies(formTypeOf(toolConfig(c.d)))
  /\ calls' = calls \ {c}
  /\ isSubmitting' = submittingAfter(c)
  /\ handleFormSubmit(c.d, c.inst, c.state, withToolResponse(formTypeOf(toolConfig(c.d)), body))
  /\ UNCHANGED <<props, components, setterCalls, deletes, blank, rejected, isChatBlocked, mounted, instance, thisFormState, lockCalls>>

\* configData of AddCrawlConfigForm: result.result decoded when it is a
\* string, result.result itself when it is an object, else the whole body
configDataOf(body) ==
  LET result == Get(body, "result")
  IN  IF Truthy(result)
      THEN (IF IsStr(result) THEN JSONparse(result) ELSE Ok(result))
      ELSE Ok(body)

\* configData.upload_url || configData.uploadUrl
uploadUrlOf(configData) == Or(Get(configData, "upload_url"), Get(configData, "uploadUrl"))

\* The catch block without its cleanup: onSubmit at once
addCrawlConfigCatchNoDelete(c, configId, error) ==
  /\ calls' = calls \ {c}
  /\ isSubmitting' = submittingAfter(c)
  /\ formCatch(c, error)

\* A catch block that makes the delete call whatever configId is
addCrawlConfigCatchAlways(c, configId, error) ==
  /\ calls' = (calls \ {c}) \cup
                {[c EXCEPT !.phase = "delete", !.configId = configId, !.failure = error]}
  /\ UNCHANGED <<submittedForms, stale, outbox, awaiting, heard, isSubmitting>>

\* The catch block of AddCrawlConfigForm.handleSubmit once configId may be
\* set: with a config id the delete call is made first
addCrawlConfigCatch(c, configId, error) ==
  IF Truthy(configId)
  THEN /\ calls' = (calls \ {c}) \cup
                     {[c EXCEPT !.phase = "delete", !.configId = configId, !.failure = error]}
       /\ UNCHANGED <<submittedForms, stale, outbox, awaiting, heard, isSubmitting>>
  ELSE /\ calls' = calls \ {c}
       /\ isSubmitting' = submittingAfter(c)
       /\ formCatch(c, error)

\* Step 1 of AddCrawlConfigForm is answered 2xx
CreateSucceeds(c, body) ==
  /\ c \in calls
  /\ c.phase = "create"
  /\ body \in okBodies("add_crawl_config")
  /\ LET configData == configDataOf(body)
     IN  IF ~configData.ok
         THEN addCrawlConfigCatch(c, Undef, ParseError)
         ELSE IF ~CanGet(configData.v)
              THEN addCrawlConfigCatch(c, Undef, ParseError)
              ELSE IF ~Truthy(uploadUrlOf(configData.v))
                   THEN addCrawlConfigCatch(c, Get(configData.v, "id"), NoUploadUrlError)
                   ELSE /\ calls' = (calls \ {c}) \cup
                                      {[c EXCEPT !.phase = "upload",
                                                 !.configId = Get(configData.v, "id"),
                                                 !.configData = configData.v]}
                        /\ UNCHANGED <<submittedForms, stale, outbox, awaiting, heard, isSubmitting>>
  /\ UNCHANGED <<props, components, setterCalls, deletes, blank, rejected, isChatBlocked, mounted, instance, thisFormState, lockCalls>>

\* Step 2: the PUT of the file is answered 2xx
UploadSucceeds(c) ==
  /\ c \in calls
  /\ c.phase = "upload"
  /\ calls' = calls \ {c}
  /\ isSubmitting' = submittingAfter(c)
  /\ handleFormSubmit(c.d, c.inst, c.state,
                      withToolResponse("add_crawl_config", Obj([result |-> c.configData])))
  /\ UNCHANGED <<props, components, setterCalls, deletes, blank, rejected, isChatBlocked, mounted, instance, thisFormState, lockCalls>>

\* Step 2 fails: a non-2xx answer or a network error
UploadFails(c) ==
  /\ c \in calls
  /\ c.phase = "upload"
  /\ addCrawlConfigCatch(c, c.configId, UploadError)
  /\ UNCHANGED <<props, components, setterCalls, deletes, blank, rejected, isChatBlocked, mounted, instance, thisFormState, lockCalls>>

\* What the fetch of the delete call may end in: a 2xx answer, an answer
\* with an error status (the response is not looked at), a rejection
DeleteAnswers == {"ok", "error", "throws"}

\* The cleanup without its inner catch: a rejected delete call ends
\* handleSubmit, an answered one goes on to onSubmit
DeleteSettlesUncaught(c, answer) ==
  /\ c \in calls
  /\ c.phase = "delete"
  /\ answer \in DeleteAnswers
  /\ calls' = calls \ {c}
  /\ deletes' = deletes \cup {[id |-> c.configId, answer |-> answer]}
  /\ isSubmitting' = submittingAfter(c)
  /\ IF answer = "throws"
     THEN UNCHANGED <<submittedForms, stale, outbox, awaiting, heard>>
     ELSE formCatch(c, c.failure)
  /\ UNCHANGED <<props, components, setterCalls, blank, rejected, isChatBlocked, mounted, instance, thisFormState,
                 lockCalls>>

\* The delete call of the cleanup returns or throws, and the inner catch
\* only logs; either way the catch block goes on to onSubmit with the
\* error that brought it there
DeleteSettles(c, answer) ==
  /\ c \in calls
  /\ c.phase = "delete"
  /\ answer \in DeleteAnswers
  /\ calls' = calls \ {c}
  /\ deletes' = deletes \cup {[id |-> c.configId, answer |-> answer]}
  /\ isSubmitting' = submittingAfter(c)
  /\ formCatch(c, c.failure)
  /\ UNCHANGED <<props, components, setterCalls, blank, rejected, isChatBlocked, mounted, instance, thisFormState,
                 lockCalls>>

(***************************************************************************)
(* The tool calls a run may render                                         *)
(***************************************************************************)

\* A payload in which every extractor finds its lists
FullPayload ==
  Obj([websites |-> Arr(<<Obj([id |-> Str("w1"), name |-> Str("Acme"), url |-> Str("acme.com")])>>),
       websites_list |-> Arr(<<Obj([id |-> Str("w1"), name |-> Str("Acme"), url |-> Str("acme.com")])>>),
       crawl_configs |-> Arr(<<Obj([id |-> Str("k1"), name |-> Str("Deep")])>>),
       prefilled_params |-> Arr(<<Obj([key |-> Str("website_id"), value |-> Str("w1")])>>),
       form_fields |-> Arr(<<Obj([label |-> Str("Site Name"), type |-> Str("string")])>>),
       sender_group_list |->
         Arr(<<Obj([sender_group_id |-> Str("g1"),
                    company_details |-> Obj([name |-> Str("Acme Inc")]),
                    senders |-> Arr(<<Obj([id |-> Str("s1"), name |-> Str("Ann"),
                                           occupation |-> Str("CEO")])>>)])>>),
       campaign_list |-> Arr(<<Obj([id |-> Str("c1"), name |-> Str("Spring")])>>),
       email_template_list |-> Arr(<<Obj([id |-> Str("t1"), name |-> Str("Intro")])>>),
       service_accounts_list |-> Arr(<<Obj([id |-> Str("a1"), email |-> Str("sa@x.io")])>>)])

\* A payload of three websites: one with a name, one without, one whose
\* name is the empty text
SitesPayload ==
  Obj([websites |->
         Arr(<<Obj([id |-> Str("w1"), name |-> Str("Acme"), url |-> Str("acme.com")]),
               Obj([id |-> Str("w2"), url |-> Str("beta.io")]),
               Obj([id |-> Str("w3"), name |-> Str(""), url |-> Str("gamma.dev")])>>)])

\* A payload of four sender groups: two senders of a company, one sender
\* of a group without id and company details, a group without senders, and
\* one sender of a group whose company has no name
SendersPayload ==
  Obj([sender_group_list |->
         Arr(<<Obj([sender_group_id |-> Str("g1"),
                    company_details |-> Obj([name |-> Str("Acme Inc")]),
                    senders |-> Arr(<<Obj([id |-> Str("s1"), name |-> Str("Ann")]),
                                      Obj([id |-> Str("s2"), name |-> Str("Bob")])>>)]),
               Obj([senders |-> Arr(<<Obj([id |-> Str("s3"), name |-> Str("Cy")])>>)]),
               Obj([sender_group_id |-> Str("g3"),
                    company_details |-> Obj([name |-> Str("Gamma")])]),
               Obj([sender_group_id |-> Str("g4"),
                    company_details |-> Null,
                    senders |-> Arr(<<Obj([id |-> Str("s4"), name |-> Str("Di")])>>)])>>)])

\* Markdown texts: one fenced block, one with a line before the block, and
\* one whose block is followed by a second closing fence
MarkdownTexts ==
  {<<FenceOpen, "Dear", FenceClose>>,
   <<"Hi", FenceOpen, "Dear", FenceClose>>,
   <<FenceOpen, "Dear", FenceClose, "PS", FenceClose>>}

\* [{ "type": "text", "text": "[{ \"output\": \"<markdown>\" }]" }]
NestedMarkdown(content) ==
  JsonText(Arr(<<Obj([type |-> Str("text"),
                      text |-> JsonText(Arr(<<Obj([output |-> content])>>))])>>))

\* [{ "type": "text", "text": "<json of payload>" }]
TextContent(payload) ==
  JsonText(Arr(<<Obj([type |-> Str("text"), text |-> JsonText(payload)])>>))

\* The output prop: the value the extractors decode it to, and the pieces of
\* its text the request id pattern is tried on
Output(text, pieces) == [text |-> text, pieces |-> pieces]

McpName(function_name) == <<function_name, Delim, "srv">>

Props(toolName, output, conversationId, messageId) ==
  [toolName |-> toolName, output |-> output, conversationId |-> conversationId,
   messageId |-> messageId]

\* The output texts of the lifecycle runs: a payload in a content block
\* without and with a request id, the empty array, text that is not JSON,
\* and no output at all
ValidOutput == Output(TextContent(FullPayload), <<>>)
RequestOutput ==
  Output(TextContent(FullPayload), <<Marker, "abc", "-", "123", "-", "def">>)
EmptyArrayOutput == Output(JsonText(EmptyArr), <<>>)
GarbageOutput == Output(Str("Service unavailable"), <<>>)
NoOutput == Output(Null, <<>>)

\* Every form type with a valid output, and the tool calls that open no
\* form or open one without a payload
LifecycleProps ==
  {Props(McpName(f), ValidOutput, <<"conv1">>, <<"msg1">>) : f \in ConfiguredTools}
    \cup {Props(McpName("render_crawl_form"), RequestOutput, <<"conv1">>, <<"msg1">>),
          Props(McpName("render_crawl_form"), GarbageOutput, <<"conv1">>, <<"msg1">>),
          Props(McpName("render_outreach_generate_form"), EmptyArrayOutput, <<"conv1">>, <<"msg1">>),
          Props(McpName("render_load_keyword_cluster_form"), NoOutput, <<>>, <<>>),
          Props(McpName("search"), ValidOutput, <<"conv1">>, <<"msg1">>)}

\* The outputs the trigger effect is tried on: every shape the extractors
\* distinguish
TriggerOutputs ==
  {Output(Markdown(t), <<>>) : t \in MarkdownTexts}
    \cup {Output(NestedMarkdown(Markdown(t)), <<>>) : t \in MarkdownTexts}
    \cup
  {ValidOutput, RequestOutput, EmptyArrayOutput, GarbageOutput, NoOutput,
   Output(JsonText(FullPayload), <<>>),
   Output(NoteText(FullPayload), <<>>),
   Output(JsonText(EmptyObj), <<>>),
   Output(TextContent(EmptyObj), <<>>),
   Output(JsonText(Null), <<>>),
   Output(JsonText(Arr(<<Null>>)), <<>>),
   Output(JsonText(Arr(<<Obj([type |-> Str("text"), text |-> Str("hello")])>>)), <<>>),
   Output(JsonText(Obj([websites |-> EmptyArr, websites_list |-> EmptyArr,
                        form_fields |-> EmptyArr, sender_group_list |-> EmptyArr,
                        keywords_sources_list |-> EmptyArr])), <<>>),
   Output(Fenced("Dear expert"), <<>>),
   Output(TextContent(SitesPayload), <<>>),
   Output(TextContent(SendersPayload), <<>>),
   Output(Str(""), <<>>)}

TriggerTools ==
  {McpName(f) : f \in ConfiguredTools}
    \cup {McpName("search"), <<"render_crawl_form">>, <<>>, <<Delim, "srv">>}

TriggerProps ==
  {Props(t, o, <<"conv1">>, <<"msg1">>) : t \in TriggerTools, o \in TriggerOutputs}

\* The outputs the request id is resolved from: no marker, the marker with
\* a token, with a token and text after it, without a token, a second
\* marker after one without a token, and two markers with a token each
IdentityPieces ==
  {<<>>,
   <<"abc", "-", "123">>,
   <<Marker, "abc", "-", "123", "-", "def">>,
   <<Marker, "abc">>,
   <<"see", Marker, "abc", "-", "123", " ", "def">>,
   <<Marker>>,
   <<Marker, "REQ", "-", "123">>,
   <<Marker, " ", Marker, "123">>,
   <<Marker, "abc", Marker, "def">>}

IdentityConversations == {<<>>, <<"conv1">>, <<"conv1", "-", "abc">>}

IdentityMessages == {<<>>, <<"msg1">>, <<"abc">>}

IdentityTools == {McpName("render_crawl_form"), McpName("render_custom_form"), McpName("search")}

IdentityProps ==
  {Props(t, Output(TextContent(FullPayload), pieces), conv, msg) :
     t \in IdentityTools, pieces \in IdentityPieces,
     conv \in IdentityConversations, msg \in IdentityMessages}

formIds == {formId(d) : d \in Detectors}

\* The detectors of a run
DetectorNames == {"d1"}

\* One detector, rendered with one of the given props; both atoms at their
\* default, the empty object
InitWith(choices) ==
  /\ props \in {[d \in DetectorNames |-> p] : p \in choices}
  /\ submittedForms = <<>>
  /\ isChatBlocked = <<>>
  /\ mounted = [d \in Detectors |-> FALSE]
  /\ instance = [d \in Detectors |-> 0]
  /\ thisFormState = [d \in Detectors |-> [isSubmitted |-> FALSE]]
  /\ stale = [d \in Detectors |-> "fresh"]
  /\ isSubmitting = [d \in Detectors |-> FALSE]
  /\ calls = {}
  /\ awaiting = [d \in Detectors |-> [submit |-> 0, cancel |-> 0]]
  /\ outbox = <<>>
  /\ lockCalls = [id \in formIds |-> [acquire |-> 0, release |-> 0]]
  /\ deletes = {}
  /\ blank = [d \in Detectors |-> {}]
  /\ rejected = [d \in Detectors |-> 0]
  /\ setterCalls = <<>>
  /\ heard = [d \in Detectors |-> {}]
  /\ xofuLoginForm = Absent
  /\ xofuLogin = Absent
  /\ crawlForm = Absent
  /\ mermaidPreview = Absent

Init == InitWith(LifecycleProps)

InitTrigger == InitWith(TriggerProps)

InitIdentity == InitWith(IdentityProps)

\* Tool calls of one chat whose forms are open side by side: in another
\* message, of another function, with a request id, in a conversation
\* whose id holds a '-', one that has no output yet, and one whose output
\* holds no options
CollisionProps ==
  {Props(McpName("render_crawl_form"), ValidOutput, <<"conv1">>, <<"msg1">>),
   Props(McpName("render_crawl_form"), ValidOutput, <<"conv1">>, <<"msg2">>),
   Props(McpName("render_custom_form"), ValidOutput, <<"conv1">>, <<"msg1">>),
   Props(McpName("render_crawl_form"),
         Output(TextContent(FullPayload), <<Marker, "abc", "-", "123">>), <<"conv1">>, <<"msg1">>),
   Props(McpName("render_crawl_form"),
         Output(TextContent(FullPayload), <<Marker, "123">>), <<"conv1", "-", "abc">>, <<"msg1">>),
   Props(McpName("render_load_keyword_cluster_form"), NoOutput, <<>>, <<>>),
   Props(McpName("render_outreach_generate_form"), EmptyArrayOutput, <<"conv1">>, <<"msg1">>)}

\* Every form type with a valid output
FormProps == {Props(McpName(f), ValidOutput, <<"conv1">>, <<"msg1">>) : f \in ConfiguredTools}

\* One detector whose form the user fills in completely, or but for one of
\* the inputs its validation asks for
InitForms ==
  /\ props \in {[d \in DetectorNames |-> p] : p \in FormProps}
  /\ blank \in {[d \in DetectorNames |-> b] :
                  b \in {{}} \cup {{f} : f \in UNION {inputsAsked(formTypeOf(toolConfig(d))) :
                                                   d \in Detectors}}}
  /\ submittedForms = <<>>
  /\ isChatBlocked = <<>>
  /\ mounted = [d \in Detectors |-> FALSE]
  /\ instance = [d \in Detectors |-> 0]
  /\ thisFormState = [d \in Detectors |-> [isSubmitted |-> FALSE]]
  /\ stale = [d \in Detectors |-> "fresh"]
  /\ isSubmitting = [d \in Detectors |-> FALSE]
  /\ calls = {}
  /\ awaiting = [d \in Detectors |-> [submit |-> 0, cancel |-> 0]]
  /\ outbox = <<>>
  /\ lockCalls = [id \in formIds |-> [acquire |-> 0, release |-> 0]]
  /\ deletes = {}
  /\ rejected = [d \in Detectors |-> 0]
  /\ setterCalls = <<>>
  /\ heard = [d \in Detectors |-> {}]
  /\ xofuLoginForm = Absent
  /\ xofuLogin = Absent
  /\ crawlForm = Absent
  /\ mermaidPreview = Absent

\* Two detectors, each rendered with the props of a tool call of its own;
\* the two tool calls may agree in everything the detector is given
InitPair ==
  /\ props \in [{"d1", "d2"} -> CollisionProps]
  /\ submittedForms = <<>>
  /\ isChatBlocked = <<>>
  /\ mounted = [d \in Detectors |-> FALSE]
  /\ instance = [d \in Detectors |-> 0]
  /\ thisFormState = [d \in Detectors |-> [isSubmitted |-> FALSE]]
  /\ stale = [d \in Detectors |-> "fresh"]
  /\ isSubmitting = [d \in Detectors |-> FALSE]
  /\ calls = {}
  /\ awaiting = [d \in Detectors |-> [submit |-> 0, cancel |-> 0]]
  /\ outbox = <<>>
  /\ lockCalls = [id \in formIds |-> [acquire |-> 0, release |-> 0]]
  /\ deletes = {}
  /\ blank = [d \in Detectors |-> {}]
  /\ rejected = [d \in Detectors |-> 0]
  /\ setterCalls = <<>>
  /\ heard = [d \in Detectors |-> {}]
  /\ xofuLoginForm = Absent
  /\ xofuLogin = Absent
  /\ crawlForm = Absent
  /\ mermaidPreview = Absent

\* The crawl form of a second conversation and of a chat without
\* conversation id, and a tool call of the first conversation that has no
\* output yet
SwitchProps ==
  {Props(McpName("render_crawl_form"), ValidOutput, <<"conv2">>, <<"msg1">>),
   Props(McpName("render_crawl_form"), ValidOutput, <<>>, <<"msg1">>),
   Props(McpName("render_load_keyword_cluster_form"), NoOutput, <<"conv1">>, <<"msg1">>)}

\* Two detectors: the custom form of the first conversation, and a tool
\* call of the same or of another conversation
InitSwitch ==
  /\ props \in {[d1 |-> Props(McpName("render_custom_form"), ValidOutput, <<"conv1">>, <<"msg1">>),
                  d2 |-> p] : p \in SwitchProps}
  /\ submittedForms = <<>>
  /\ isChatBlocked = <<>>
  /\ mounted = [d \in Detectors |-> FALSE]
  /\ instance = [d \in Detectors |-> 0]
  /\ thisFormState = [d \in Detectors |-> [isSubmitted |-> FALSE]]
  /\ stale = [d \in Detectors |-> "fresh"]
  /\ isSubmitting = [d \in Detectors |-> FALSE]
  /\ calls = {}
  /\ awaiting = [d \in Detectors |-> [submit |-> 0, cancel |-> 0]]
  /\ outbox = <<>>
  /\ lockCalls = [id \in formIds |-> [acquire |-> 0, release |-> 0]]
  /\ deletes = {}
  /\ blank = [d \in Detectors |-> {}]
  /\ rejected = [d \in Detectors |-> 0]
  /\ setterCalls = <<>>
  /\ heard = [d \in Detectors |-> {}]
  /\ xofuLoginForm = Absent
  /\ xofuLogin = Absent
  /\ crawlForm = Absent
  /\ mermaidPreview = Absent

\* The renders, the submissions and submitMessage, while no tool call is
\* answered: the custom form calls none
NextSwitch ==
  \/ \E d \in Detectors : Mount(d)
  \/ \E d \in Detectors : Rerender(d)
  \/ \E d \in Detectors : Unmount(d)
  \/ \E d \in Detectors : ClickSubmit(d)
  \/ \E d \in Detectors : \E kind \in {"submit", "cancel"} : MessageResolves(d, kind)
  \/ \E d \in Detectors : \E kind \in {"submit", "cancel"} : MessageRejects(d, kind)

SpecSwitch == InitSwitch /\ [][NextSwitch]_vars

\* The first render of each detector, the renders that follow a write, the
\* clicks and submitMessage: every write to the store
NextStore ==
  \/ \E d \in Detectors : Mount(d)
  \/ \E d \in Detectors : Rerender(d)
  \/ \E d \in Detectors : ClickCancel(d)
  \/ \E d \in Detectors : ClickSubmit(d)
  \/ \E d \in Detectors : \E kind \in {"submit", "cancel"} : MessageResolves(d, kind)

SpecStore == InitSwitch /\ [][NextStore]_vars

Next ==
  \/ \E d \in Detectors : Mount(d)
  \/ \E d \in Detectors : Rerender(d)
  \/ \E d \in Detectors : Unmount(d)
  \/ \E d \in Detectors : ClickCancel(d)
  \/ \E d \in Detectors : ClickSubmit(d)
  \/ \E c \in calls : FetchFails(c)
  \/ \E c \in calls : \E body \in okBodies(formTypeOf(toolConfig(c.d))) : FetchSucceeds(c, body)
  \/ \E c \in calls : \E body \in okBodies("add_crawl_config") : CreateSucceeds(c, body)
  \/ \E c \in calls : UploadSucceeds(c)
  \/ \E c \in calls : UploadFails(c)
  \/ \E c \in calls : \E answer \in DeleteAnswers : DeleteSettles(c, answer)
  \/ \E d \in Detectors : \E kind \in {"submit", "cancel"} : MessageResolves(d, kind)
  \/ \E d \in Detectors : \E kind \in {"submit", "cancel"} : MessageRejects(d, kind)

Spec == Init /\ [][Next]_vars

\* What goes on without the user: a render that is due is made, a promise
\* that is pending settles.  Mounting, unmounting and the clicks are up to
\* the user and happen or not.
FairSpec ==
  /\ Spec
  /\ WF_vars(\E d \in Detectors : Rerender(d))
  /\ WF_vars(\E d \in Detectors : \E kind \in {"submit", "cancel"} :
               MessageResolves(d, kind) \/ MessageRejects(d, kind))
  /\ WF_vars(\E c \in calls :
               \/ FetchFails(c)
               \/ \E body \in okBodies(formTypeOf(toolConfig(c.d))) : FetchSucceeds(c, body)
               \/ \E body \in okBodies("add_crawl_config") : CreateSucceeds(c, body)
               \/ UploadSucceeds(c)
               \/ UploadFails(c)
               \/ \E answer \in DeleteAnswers : DeleteSettles(c, answer))

\* The renders alone, on every tool name and output shape
NextTrigger ==
  \/ \E d \in Detectors : Mount(d)
  \/ \E d \in Detectors : Rerender(d)
  \/ \E d \in Detectors : Unmount(d)

SpecTrigger == InitTrigger /\ [][NextTrigger]_vars

\* The renders, the user's clicks and the failure of the form's tool call
NextForms ==
  \/ \E d \in Detectors : Mount(d)
  \/ \E d \in Detectors : Rerender(d)
  \/ \E d \in Detectors : Unmount(d)
  \/ \E d \in Detectors : ClickCancel(d)
  \/ \E d \in Detectors : ClickSubmit(d)
  \/ \E c \in calls : FetchFails(c)

SpecForms == InitForms /\ [][NextForms]_vars

\* The renders of two detectors
SpecPair == InitPair /\ [][NextTrigger]_vars

\* The renders on the inputs of the request identity
SpecIdentity == InitIdentity /\ [][NextTrigger]_vars


(***************************************************************************)
(* The form request episode: states of a record, renders of a detector     *)
(***************************************************************************)

hasRecord(id) == id \in DOMAIN submittedForms

isSubmittedAt(id) == hasRecord(id) /\ Flag(submittedForms[id], "isSubmitted")

isCancelledAt(id) == hasRecord(id) /\ Flag(submittedForms[id], "isCancelled")

isPending(id) == hasRecord(id) /\ ~isSubmittedAt(id) /\ ~isCancelledAt(id)

isTerminal(id) == isSubmittedAt(id) \/ isCancelledAt(id)

\* This step mounts an instance of d
mounts(d) == ~mounted[d] /\ mounted'[d]

\* This step renders the mounted instance of d again
rerenders(d) == mounted[d] /\ mounted'[d] /\ stale[d] # "fresh" /\ stale'[d] = "fresh"

\* Nothing of d is outstanding: no render, no tool call, no message
quiescent(d) ==
  /\ stale[d] = "fresh"
  /\ \A c \in calls : c.d # d
  /\ awaiting[d].submit = 0
  /\ awaiting[d].cancel = 0

\* C1: once the record of a form id is terminal, a later render of the
\* same tool call - a re-render or a mount of a new instance - leaves the
\* record as it is, does not set the blocked flag of the conversation, and
\* sends no message.
C1_RetriggerGuard ==
  [][\A d \in Detectors :
       (isTerminal(formId(d)) /\ (mounts(d) \/ rerenders(d))) =>
         /\ hasRecord(formId(d))'
         /\ submittedForms'[formId(d)] = submittedForms[formId(d)]
         /\ (Blocked(conversation(d))' => Blocked(conversation(d)))
         /\ outbox' = outbox]_vars

\* C2: whenever a record is pending and its detector is mounted, the
\* blocked flag of the owning conversation is true.
C2_LockInvariant ==
  \A d \in Detectors :
    (mounted[d] /\ isPending(formId(d))) => Blocked(conversation(d))

\* A property of an option bundle that holds no data
isEmptyValue(val) == IF IsArr(val) THEN Len(val.items) = 0 ELSE ~Truthy(val)

\* Every list of the bundle is empty and every scalar falsy
allEmpty(options) ==
  IF IsArr(options) THEN Len(options.items) = 0
  ELSE options.k = "obj" => \A key \in DOMAIN options.f : isEmptyValue(options.f[key])

\* The bundle extracted for d holds no data, or is the empty bundle of its
\* extractor
extractsNothing(d) ==
  /\ toolConfig(d) # NoConfig
  /\ Truthy(props[d].output.text)
  /\ LET options == extractOptions(toolConfig(d), props[d].output.text)
     IN  allEmpty(options) \/ options = emptyBundle(toolConfig(d))

\* C3: a bundle whose lists are all empty and whose scalars are all falsy,
\* the empty bundle of each extractor included, never makes the trigger
\* effect write a pending record or set the blocked flag.
C3_ValidityGate ==
  \A d \in Detectors :
    extractsNothing(d) =>
      /\ ~hasRecord(formId(d))
      /\ ~Blocked(conversation(d))
      /\ lockCalls[formId(d)].acquire = 0

\* The output of d is text that JSON.parse rejects and that holds no
\* payload in another notation
undecodable(d) ==
  /\ toolConfig(d) # NoConfig
  /\ props[d].output.text.k = "str"
  /\ props[d].output.text.enc = "plain"
  /\ props[d].output.text.s # ""

\* C4: when the output cannot be decoded, extractOptions returns the empty
\* bundle of the form type, and the tool call, once rendered, has no
\* pending record and no lock acquisition.
C4_ParseFailureOpensNoForm ==
  \A d \in Detectors :
    (undecodable(d) /\ instance[d] > 0) =>
      /\ extractOptions(toolConfig(d), props[d].output.text) = emptyBundle(toolConfig(d))
      /\ ~hasRecord(formId(d))
      /\ lockCalls[formId(d)].acquire = 0

\* C5: the blocked flag is set to true at most once per form id, and it is
\* set to false at most as often as it was set to true.
C5_LockPairing ==
  \A id \in formIds :
    /\ lockCalls[id].acquire <= 1
    /\ lockCalls[id].release <= lockCalls[id].acquire

\* A handler of d is awaiting submitMessage: the user submitted or
\* cancelled, and the message is in flight
awaitingMessage(d) == awaiting[d].submit + awaiting[d].cancel > 0

\* C6: whenever a handler is awaiting submitMessage after a submit or a
\* cancel, the blocked flag of the conversation is false at some later
\* time, whether submitMessage resolves or rejects.
C6_NoStuckLock ==
  \A n \in DetectorNames :
    (n \in Detectors /\ awaitingMessage(n)) ~> (n \in Detectors /\ ~Blocked(conversation(n)))

\* The tool call c of a form is over after this step
ends(c) == c \in calls /\ \A c2 \in calls' : c2.d # c.d \/ c2.inst # c.inst

\* This step gave a message to submitMessage
dispatches == Len(outbox') = Len(outbox) + 1

dispatched == outbox'[Len(outbox')]

\* The tool call c is over and did not end in a submission without error
endsInFailure(c) ==
  /\ ends(c)
  /\ ~(/\ dispatches
       /\ hasRecord(formId(c.d))'
       /\ "submittedData" \in DOMAIN submittedForms'[formId(c.d)]
       /\ ~Truthy(errorOf(submittedForms'[formId(c.d)].submittedData)))

\* C7: when the tool call of a form fails, the form still calls the submit
\* handler: the record is submitted and the message is dispatched, which
\* the release of the lock follows.
C7_ToolFailureCompletes ==
  [][\A c \in calls :
       endsInFailure(c) =>
         /\ isSubmittedAt(formId(c.d))'
         /\ dispatches
         /\ awaiting'[c.d].submit = awaiting[c.d].submit + 1]_vars

\* C8: when a submission carries toolResponse.error, the message built for
\* it has the status line Failed with that error text.
C8_FailedStatusLine ==
  [][(/\ dispatches
      /\ dispatched.kind = "submit"
      /\ Truthy(errorOf(submittedForms'[dispatched.by].submittedData))) =>
       /\ dispatched.info.status = "Failed"
       /\ dispatched.info.error = errorOf(submittedForms'[dispatched.by].submittedData)]_vars

\* C9: in no state is the message of a submission in flight while the
\* record of the form is not marked submitted.
C9_SubmitOrdering ==
  \A d \in Detectors :
    awaiting[d].submit > 0 => isSubmittedAt(formId(d))

\* The messages of one kind that were sent for a form id
sent(id, kind) == {i \in 1..Len(outbox) : outbox[i].by = id /\ outbox[i].kind = kind}

\* C10: after the user cancelled the pending record of the first instance
\* and the handler is through, the record is cancelled and not submitted,
\* one neutral message was sent, and the blocked flag, set to true once,
\* was set to false once.
C10_CancelTransition ==
  \A d \in Detectors :
    (/\ instance[d] = 1
     /\ isCancelledAt(formId(d))
     /\ quiescent(d)
     /\ lockCalls[formId(d)].acquire = 1) =>
      /\ ~isSubmittedAt(formId(d))
      /\ Cardinality(sent(formId(d), "cancel")) = 1
      /\ lockCalls[formId(d)].release = 1

\* This step unmounts the instance of d
unmounts(d) == mounted[d] /\ ~mounted'[d]

\* No submit and no cancel handler has run for the form id
neverTerminal(id) == sent(id, "submit") = {} /\ sent(id, "cancel") = {}

\* C11: when the detector of a record that is pending and was never
\* submitted or cancelled is unmounted, the blocked flag of its
\* conversation is false afterwards and the record is left as it was.
C11_UnmountSafetyNet ==
  [][\A d \in Detectors :
       (unmounts(d) /\ isPending(formId(d)) /\ neverTerminal(formId(d))) =>
         /\ ~Blocked(conversation(d))'
         /\ hasRecord(formId(d))'
         /\ submittedForms'[formId(d)] = submittedForms[formId(d)]]_vars

\* A detector was unmounted right after its trigger effect ran: the lock
\* taken at mount was released by the unmount alone, the record is pending
C11_Witness ==
  \E d \in Detectors :
    /\ ~mounted[d]
    /\ instance[d] = 1
    /\ isPending(formId(d))
    /\ neverTerminal(formId(d))
    /\ lockCalls[formId(d)].acquire = 1
    /\ lockCalls[formId(d)].release = 1
    /\ conversation(d) \in DOMAIN isChatBlocked
    /\ ~isChatBlocked[conversation(d)]

\* C12: a record becomes submitted or cancelled only from a pending
\* record: no step makes the record of a form id terminal when that id had
\* no record (or no pending one) before the step.
C12_PendingPrecedesTerminal ==
  [][\A id \in formIds : (~isTerminal(id) /\ isTerminal(id)') => isPending(id)]_vars

\* The trigger effect of a detector of the form id has taken the lock
acquired(id) == lockCalls[id].acquire > 0

\* C13: whenever the Submit or Cancel control of a detector's form can be
\* activated, the lock was acquired for its form id before: the form is
\* never interactive for an id whose lock was never taken.
C13_LockBeforeInteraction ==
  \A d \in Detectors : formInteractive(d) => acquired(formId(d))

\* The pieces of the character class only
isToken(token) == Len(token) > 0 /\ \A i \in 1..Len(token) : token[i] \in HexPieces

\* token stands right after the marker at position i and ends there
tokenAt(pieces, i, token) ==
  /\ pieces[i] = Marker
  /\ i + Len(token) <= Len(pieces)
  /\ SubSeq(pieces, i + 1, i + Len(token)) = token
  /\ isToken(token)
  /\ (i + Len(token) < Len(pieces) => pieces[i + Len(token) + 1] \notin HexPieces)

\* The output carries the marker followed by a token, and token is the
\* first such
carriesToken(pieces, token) ==
  \E i \in 1..Len(pieces) :
    /\ tokenAt(pieces, i, token)
    /\ \A j \in 1..(i - 1) : ~(pieces[j] = Marker /\ pieces[j + 1] \in HexPieces)

\* The output carries no marker that is followed by a token
carriesNoToken(pieces) ==
  \A i \in 1..Len(pieces) : ~(pieces[i] = Marker /\ i < Len(pieces) /\ pieces[i + 1] \in HexPieces)

\* The tokens the outputs of a run may carry
Tokens(pieces) ==
  {SubSeq(pieces, i, j) : i \in 1..Len(pieces), j \in 1..Len(pieces)}

\* The detector has rendered and its trigger effect has stored the record
stored(d) == instance[d] > 0 /\ triggersForm(d)

\* The ids under which the detector's records are stored
storedIds == DOMAIN submittedForms

\* id \|\| fallback
orText(id, fallback) == IF id = <<>> THEN <<fallback>> ELSE id

\* C14 as stated: with the marker followed by a token the record is stored
\* under conversationId-token, whatever messageId and function name are;
\* without it under conversationId-messageId-functionName; every mount
\* resolves to the same id.
C14_RequestIdentityAsStated ==
  \A d \in Detectors :
    stored(d) =>
      LET p == props[d]
          function_name == parseToolName(p.toolName).function_name
      IN  /\ \A token \in Tokens(p.output.pieces) :
                carriesToken(p.output.pieces, token) =>
                  storedIds = {p.conversationId \o <<"-">> \o token}
          /\ carriesNoToken(p.output.pieces) =>
                storedIds = {p.conversationId \o <<"-">> \o p.messageId \o <<"-">> \o function_name}

\* C14 (amended): as stated, with 'no-conv' in place of a missing
\* conversationId and 'no-msg' in place of a missing messageId, the token
\* being the longest run of [a-f0-9-] after the first marker that is
\* followed by such a character.
C14_RequestIdentity ==
  \A d \in Detectors :
    stored(d) =>
      LET p == props[d]
          function_name == parseToolName(p.toolName).function_name
          conv == orText(p.conversationId, "no-conv")
          msg == orText(p.messageId, "no-msg")
      IN  /\ \A token \in Tokens(p.output.pieces) :
                carriesToken(p.output.pieces, token) =>
                  storedIds = {conv \o <<"-">> \o token}
          /\ carriesNoToken(p.output.pieces) =>
                storedIds = {conv \o <<"-">> \o msg \o <<"-">> \o function_name}

\* Scenario D, after a second mount: request_id::abc-123-def in conv1
C14_Witness ==
  \E d \in Detectors :
    /\ instance[d] = 2
    /\ props[d].conversationId = <<"conv1">>
    /\ carriesToken(props[d].output.pieces, <<"abc", "-", "123", "-", "def">>)
    /\ storedIds = {<<"conv1", "-", "abc", "-", "123", "-", "def">>}

\* C15: the detectors of two different tool calls never resolve to the
\* same form id: once both have stored their record, each reads a record
\* of its own.
C15_NoCollision ==
  \A d, e \in Detectors : (d # e /\ stored(d) /\ stored(e)) => formId(d) # formId(e)

\* The call c is over after this step
settles(c) == c \in calls /\ c \notin calls'

\* After this step a delete call for the config that c created is under way
deletesConfigOf(c) ==
  \E c2 \in calls' :
    c2.d = c.d /\ c2.inst = c.inst /\ c2.phase = "delete" /\ c2.configId = c.configId

\* The submission given to the submit handler in this step carries the error
submitsError(error) ==
  /\ dispatches
  /\ dispatched.kind = "submit"
  /\ errorOf(submittedForms'[dispatched.by].submittedData) = error

\* C16: when the upload of a created config fails, the delete call for its
\* id is made and nothing is submitted yet; the failed upload reaches the
\* submit handler only when a delete call for that config settles, and the
\* message then built has the status line Failed.
C16_UploadCompensation ==
  [][/\ \A c \in calls :
          (/\ c.phase = "upload"
           /\ Truthy(c.configId)
           /\ settles(c)
           /\ ~(dispatches /\ dispatched.info.status = "success")) =>
            ~dispatches /\ deletesConfigOf(c)
     /\ submitsError(UploadError) =>
          /\ \E c \in calls :
               c.phase = "delete" /\ settles(c) /\ formId(c.d) = dispatched.by
          /\ dispatched.info = Failed(UploadError)]_vars

\* Scenario E is through: the delete call for cfg1 settled and the message
\* with the status line Failed was sent
C16_Witness ==
  /\ \E x \in deletes : x.id = Str("cfg1")
  /\ \E i \in 1..Len(outbox) : outbox[i].info = Failed(UploadError)

\* A delete call for the config id has failed: the fetch was rejected or
\* answered with an error status
deleteFailed(id) == \E x \in deletes : x.id = id /\ x.answer \in {"error", "throws"}

TerminalKeys == {"isSubmitted", "isCancelled", "submittedData"}

\* The properties the trigger effect writes besides the two flags
PendingKeys == {"toolName", "serverName", "requestId", "options", "output", "formType"}

\* C18: when the submit or the cancel handler marks a record that is
\* there, the record keeps every property other than isSubmitted,
\* isCancelled and submittedData with its value, and gains no other one.
C18_TerminalWritePreserves ==
  [][dispatches =>
       LET id == dispatched.by
       IN  hasRecord(id) =>
             /\ \A k \in DOMAIN submittedForms[id] \ TerminalKeys :
                  /\ k \in DOMAIN submittedForms'[id]
                  /\ submittedForms'[id][k] = submittedForms[id][k]
             /\ DOMAIN submittedForms'[id] \subseteq DOMAIN submittedForms[id] \cup TerminalKeys]_vars

\* A record is submitted and holds what the trigger effect stored
C18_Witness ==
  \E d \in Detectors :
    /\ isSubmittedAt(formId(d))
    /\ "submittedData" \in DOMAIN submittedForms[formId(d)]
    /\ PendingKeys \subseteq DOMAIN submittedForms[formId(d)]
    /\ \A k \in PendingKeys : submittedForms[formId(d)][k] = pendingRecord(d)[k]

\* The id-valued fields of a submission, the property that holds the label
\* of each, and the list of the bundle its options are in
LabelledFields ==
  {<<"sender_id", "senderLabel", "senders">>,
   <<"list_id", "listLabel", "lists">>,
   <<"campaign_id", "campaignLabel", "campaigns">>,
   <<"template_id", "templateLabel", "templates">>,
   <<"website_id", "websiteLabel", "websites">>,
   <<"crawl_config_id", "crawlConfigLabel", "crawlConfigs">>,
   <<"service_account", "serviceAccountLabel", "serviceAccounts">>}

\* C19: in the submittedData of a submitted record every id-valued field
\* that is filled has its label, never undefined, and the label is the raw
\* id when the bundle of the record holds no option with that id.
C19_LabelResolution ==
  \A d \in Detectors :
    (isSubmittedAt(formId(d)) /\ "submittedData" \in DOMAIN submittedForms[formId(d)]) =>
      LET data == submittedForms[formId(d)].submittedData
          options == optionsOf(submittedForms[formId(d)])
      IN  \A t \in LabelledFields :
            Truthy(Get(data, t[1])) =>
              /\ Get(data, t[2]) # Undef
              /\ findById(Get(options, t[3]), Get(data, t[1])) = Undef =>
                   Get(data, t[2]) = Get(data, t[1])

\* The conversations of the detectors
Conversations == {conversation(d) : d \in Detectors}

\* The lock table is after this step what it was: every entry it had keeps
\* its value and every conversation is blocked or not as before (a
\* conversation without an entry is not blocked)
tableUnchanged ==
  /\ \A conv \in DOMAIN isChatBlocked :
       conv \in DOMAIN isChatBlocked' /\ isChatBlocked'[conv] = isChatBlocked[conv]
  /\ \A conv \in Conversations : Blocked(conv)' = Blocked(conv)

\* In this step the detector called setChatBlocked
locks(d) == lockCalls'[formId(d)] # lockCalls[formId(d)]

\* C20: a detector that acquires the lock of a conversation that is
\* blocked, or releases the lock of one that is not, leaves the lock table
\* as it was; acquiring twice gives the table that acquiring once gives,
\* and so does releasing.
C20_LockIdempotence ==
  [][/\ \A d \in Detectors :
          /\ (mounts(d) /\ locks(d) /\ Blocked(conversation(d))) => tableUnchanged
          /\ ((unmounts(d) \/ rerenders(d)) /\ locks(d) /\ ~Blocked(conversation(d))) =>
               tableUnchanged
     /\ \A conv \in Conversations : \A value \in BOOLEAN :
          withBlocked(withBlocked(isChatBlocked, conv, value), conv, value)
            = withBlocked(isChatBlocked, conv, value)]_vars

\* Two detectors of one conversation are mounted, each took the lock and
\* none released it: the second found the conversation blocked
C20_Witness ==
  \E d, e \in Detectors :
    /\ formId(d) # formId(e)
    /\ conversation(d) = conversation(e)
    /\ mounted[d] /\ mounted[e]
    /\ \A x \in {d, e} : lockCalls[formId(x)] = [acquire |-> 1, release |-> 0]
    /\ Blocked(conversation(d))

\* C21: a detector of a configured tool whose output is the text [] has,
\* once rendered, no record under its form id and never took the lock.
C21_EmptyArrayOutput ==
  \A d \in Detectors :
    (toolConfig(d) # NoConfig /\ props[d].output = EmptyArrayOutput /\ instance[d] > 0) =>
      /\ allEmpty(extractOptions(toolConfig(d), props[d].output.text))
      /\ ~hasRecord(formId(d))
      /\ ~acquired(formId(d))

\* The user left an input empty that the form's validation asks for
incomplete(d) == requiredFields(d) \cap blank[d] # {}

\* handleSubmit of d's form ran in this step: it returned at the
\* validation, started its tool call, or called onSubmit at once
submitPressed(d) ==
  \/ rejected'[d] # rejected[d]
  \/ \E c \in calls' \ calls : c.d = d /\ c.phase \in {"call", "create"}
  \/ /\ formTypeOf(toolConfig(d)) = "custom"
     /\ dispatches /\ dispatched.kind = "submit" /\ dispatched.by = formId(d)

triggers(d) == mounts(d) /\ (locks(d) \/ submittedForms' # submittedForms)

\* C23: the trigger effect writes a pending record and takes the lock only
\* for a tool name with the delimiter whose function part is configured,
\* an output that is not null and not empty, a form id without a record,
\* and a valid bundle; for a name without the delimiter, an unknown
\* function or no output there is never a record nor an acquisition.
C23_TriggerPreconditions ==
  [][\A d \in Detectors :
       /\ triggers(d) =>
            /\ parseToolName(props[d].toolName).isMCPToolCall
            /\ toolConfig(d) # NoConfig
            /\ Truthy(props[d].output.text)
            /\ ~hasRecord(formId(d))
            /\ hasValidOptions(extractOptions(toolConfig(d), props[d].output.text))
            /\ isPending(formId(d))'
       /\ (\/ ~parseToolName(props[d].toolName).isMCPToolCall
           \/ toolConfig(d) = NoConfig
           \/ ~Truthy(props[d].output.text)) =>
            ~hasRecord(formId(d))' /\ ~acquired(formId(d))']_vars

\* C24: no step removes a form id from the store: every key of
\* submittedForms is a key of it after the step.
C24_RecordsNeverDeleted ==
  [][DOMAIN submittedForms \subseteq DOMAIN submittedForms']_vars

\* The record outlived a cancel, the unmount of its detector and a second
\* mount and unmount
C24_Witness ==
  \E d \in Detectors :
    /\ hasRecord(formId(d))
    /\ sent(formId(d), "cancel") # {}
    /\ instance[d] = 2
    /\ ~mounted[d]

\* A tool response result in which no form type finds one of its success
\* or error patterns
Unmatched == Str("queued")

\* C25: when a submission carries a result that none of the form type's
\* patterns matches, the message built for it has the status line
\* 'Request completed'.
C25_StatusFallback ==
  [][(/\ dispatches
      /\ dispatched.kind = "submit"
      /\ resultOf(submittedForms'[dispatched.by].submittedData) = Unmatched) =>
       dispatched.info = Status("completed")]_vars

\* The websites list of the payload the output of d decodes to, when d
\* renders render_crawl_form joined to a server and every list of the
\* payload is a list of objects; the empty list otherwise
websitesAsked(d) ==
  LET p == unwrapTextContent(props[d].output.text)
  IN  IF /\ toolConfig(d) = "render_crawl_form"
         /\ p.ok
         /\ CanGet(p.v)
         /\ Mappable(p.v, "websites")
         /\ Mappable(p.v, "crawl_configs")
         /\ prefilledParamsOf(p.v).ok
      THEN ListOf(p.v, "websites")
      ELSE <<>>

\* entry is the {id, name, url} entry of the website ws
entryOf(entry, ws) ==
  /\ entry.k = "obj"
  /\ DOMAIN entry.f = {"id", "name", "url"}
  /\ entry.f.id = Get(ws, "id")
  /\ entry.f.url = Get(ws, "url")
  /\ entry.f.name = (IF Truthy(Get(ws, "name")) THEN Get(ws, "name") ELSE Get(ws, "url"))

\* C26: when render_crawl_form, joined to a server by the delimiter, mounts
\* with an output whose decoded payload has a non-empty websites list, the
\* record stored is PENDING (from no record on the first mount), its bundle
\* is valid and the bundle's websites list has one {id, name, url} entry per
\* website of the payload, in the payload's order, the name being the url
\* where the website has no name.
C26_CrawlFormTrigger ==
  [][\A d \in Detectors :
       (mounts(d) /\ websitesAsked(d) # <<>>) =>
         /\ isPending(formId(d))'
         /\ hasValidOptions(submittedForms'[formId(d)].options)
         /\ LET websites == Get(submittedForms'[formId(d)].options, "websites")
            IN  /\ IsArr(websites)
                /\ Len(websites.items) = Len(websitesAsked(d))
                /\ \A i \in 1..Len(websitesAsked(d)) :
                     entryOf(websites.items[i], websitesAsked(d)[i])]_vars

\* A crawl form is pending with the three websites of a payload, one of
\* them without a name
C26_Witness ==
  \E d \in Detectors :
    /\ mounted[d]
    /\ Len(websitesAsked(d)) = 3
    /\ \E i \in 1..3 : ~Truthy(Get(websitesAsked(d)[i], "name"))
    /\ isPending(formId(d))
    /\ Len(Get(submittedForms[formId(d)].options, "websites").items) = 3

\* C27: the cleanup of a detector that never acquired the lock leaves the
\* blocked flag of its conversation as it is: it never unblocks a
\* conversation that another pending form has blocked.
C27_CleanupOwnLock ==
  [][\A d \in Detectors :
       (unmounts(d) /\ ~acquired(formId(d))) =>
         Blocked(conversation(d))' = Blocked(conversation(d))]_vars

groupsAsked(d) ==
  LET p == unwrapTextContent(props[d].output.text)
  IN  IF /\ toolConfig(d) = "render_outreach_generate_form"
         /\ p.ok
         /\ CanGet(p.v)
         /\ \A key \in {"sender_group_list", "upload_list_list", "campaign_list",
                        "email_template_list", "icp_list"} : Mappable(p.v, key)
         /\ \A i \in 1..Len(ListOf(p.v, "sender_group_list")) :
              Mappable(ListOf(p.v, "sender_group_list")[i], "senders")
      THEN ListOf(p.v, "sender_group_list")
      ELSE <<>>

\* The number of senders of the first n groups
RECURSIVE sendersUpTo(_, _)
sendersUpTo(groups, n) ==
  IF n = 0 THEN 0 ELSE sendersUpTo(groups, n - 1) + Len(ListOf(groups[n], "senders"))

\* The company name of a group, when it has one that is not empty
companyOf(group) ==
  IF Get(group, "company_details").k = "obj" /\ Truthy(Get(Get(group, "company_details"), "name"))
  THEN Get(Get(group, "company_details"), "name")
  ELSE Str("Unknown Company")

\* C29: the senders list of the bundle stored for the outreach form has one
\* entry per sender of every group of sender_group_list, in group order and
\* within a group in sender order, each with the sender_group_id of its
\* group ('' when the group has none) and the group's company name
\* ('Unknown Company' when it has none); the list is as long as the groups'
\* sender counts together.
C29_SenderFlattening ==
  [][\A d \in Detectors :
       (mounts(d) /\ sendersUpTo(groupsAsked(d), Len(groupsAsked(d))) > 0) =>
         LET groups == groupsAsked(d)
             senders == Get(submittedForms'[formId(d)].options, "senders")
         IN  /\ IsArr(senders)
             /\ Len(senders.items) = sendersUpTo(groups, Len(groups))
             /\ \A i \in 1..Len(groups) :
                  \A j \in 1..Len(ListOf(groups[i], "senders")) :
                    LET entry == senders.items[sendersUpTo(groups, i - 1) + j]
                    IN  /\ Get(entry, "id") = Get(ListOf(groups[i], "senders")[j], "id")
                        /\ Get(entry, "name") = Get(ListOf(groups[i], "senders")[j], "name")
                        /\ Get(entry, "sender_group_id") =
                             (IF Truthy(Get(groups[i], "sender_group_id"))
                              THEN Get(groups[i], "sender_group_id") ELSE Str(""))
                        /\ Get(entry, "company_name") = companyOf(groups[i])]_vars

\* An outreach form is open on the four senders of a payload of four
\* groups, one group without senders and one without id and company
C29_Witness ==
  \E d \in Detectors :
    /\ mounted[d]
    /\ Len(groupsAsked(d)) = 4
    /\ \E i \in 1..4 : ~Truthy(Get(groupsAsked(d)[i], "sender_group_id"))
    /\ hasRecord(formId(d))
    /\ Len(Get(submittedForms[formId(d)].options, "senders").items) = 4

\* The default of the Email Content field in the record of d
emailContentStored(d) ==
  Get(Get(submittedForms[formId(d)].options, "formFields").items[2], "default")

\* The markdown text t is what the output of d holds
holdsRaw(d, t) == props[d].output.text = Markdown(t)
holdsNested(d, t) == props[d].output.text = NestedMarkdown(Markdown(t))

\* C30: for email_sme_questions_form, a markdown text that the pattern
\* reads gives the same Email Content whether it arrives in the
\* triple-nested wrapping (and is unwrapped) or as the raw output (and is
\* read by the pattern); an output that is not JSON gets what the pattern
\* finds in it.
C30_MarkdownRecovery ==
  [][\A d \in Detectors :
       (mounts(d) /\ toolConfig(d) = "email_sme_questions_form") =>
         \A t \in MarkdownTexts :
           /\ holdsRaw(d, t) /\ piecesMatch(t).ok => emailContentStored(d)' = piecesMatch(t).v
           /\ holdsNested(d, t) /\ piecesMatch(t).ok => emailContentStored(d)' = piecesMatch(t).v]_vars

\* C31: no record has isSubmitted and isCancelled both true, under every
\* interleaving of the submit and cancel callbacks, a submit whose tool
\* call was started by an instance unmounted since included.
C31_NeverBothTerminal ==
  \A id \in DOMAIN submittedForms : ~(isSubmittedAt(id) /\ isCancelledAt(id))

\* The detector d made this step: it mounted, rendered again, unmounted,
\* or one of its handlers started or finished waiting for submitMessage
steps(d) ==
  mounts(d) \/ rerenders(d) \/ unmounts(d) \/ awaiting'[d] # awaiting[d]

\* The entry of a conversation in the lock table is after this step what
\* it was
sameFlag(conv) ==
  /\ conv \in DOMAIN isChatBlocked' <=> conv \in DOMAIN isChatBlocked
  /\ conv \in DOMAIN isChatBlocked => isChatBlocked'[conv] = isChatBlocked[conv]

\* C32: a step of a detector changes the blocked flag of no conversation
\* but the one the detector was rendered with ('no-conv' when it has
\* none), also when its handler releases after the detector was unmounted.
C32_NoLockLeakage ==
  [][\A d \in Detectors :
       steps(d) =>
         \A conv \in (DOMAIN isChatBlocked \cup DOMAIN isChatBlocked') :
           conv # (IF props[d].conversationId = <<>> THEN <<"no-conv">>
                   ELSE props[d].conversationId) => sameFlag(conv)]_vars

\* The handler of an unmounted detector is about to release while the
\* other conversation is blocked
C32_Witness ==
  /\ ~mounted["d1"]
  /\ awaiting["d1"].submit > 0
  /\ conversation("d2") # conversation("d1")
  /\ Blocked(conversation("d2"))

\* The detector d wrote to the store in this step: its trigger effect ran,
\* or its submit or cancel handler did
writes(d) ==
  \/ mounts(d)
  \/ awaiting'[d].submit > awaiting[d].submit
  \/ awaiting'[d].cancel > awaiting[d].cancel

\* C33: every write to the store (pending, submitted, cancelled) gives a
\* map in which only the entry of the writer's own form id differs: the
\* records of all other form ids are what they were, none is added and
\* none is missing.
C33_KeyedWrites ==
  [][/\ DOMAIN submittedForms \subseteq DOMAIN submittedForms'
     /\ \A id \in DOMAIN submittedForms' :
          (id \notin DOMAIN submittedForms \/ submittedForms'[id] # submittedForms[id]) =>
            \E d \in Detectors : writes(d) /\ id = formId(d)
     /\ \A d \in Detectors :
          writes(d) =>
            \A id \in DOMAIN submittedForms \ {formId(d)} :
              submittedForms'[id] = submittedForms[id]]_vars

\* One form was submitted and the other cancelled, each after its pending
\* record was written beside the other's
C33_Witness ==
  /\ formId("d1") # formId("d2")
  /\ hasRecord(formId("d1")) /\ isSubmittedAt(formId("d1"))
  /\ hasRecord(formId("d2")) /\ isCancelledAt(formId("d2"))

\* The tool invocations in flight that the mounted form instance of d
\* started
inFlight(d) == {c \in calls : c.d = d /\ mounted[d] /\ c.inst = instance[d]}

\* C34: while the tool call of a mounted form instance is in flight
\* (isSubmitting), neither its Submit control starts another invocation
\* nor its Cancel control calls onCancel; a mounted instance has at most
\* one invocation in flight, and the detector never receives both onSubmit
\* and onCancel from one instance.
C34_SubmitCancelExclusion ==
  /\ [](\A d \in Detectors :
          /\ Cardinality(inFlight(d)) <= 1
          /\ inFlight(d) # {} => isSubmitting[d]
          /\ heard[d] # {"submit", "cancel"})
  /\ [][\A d \in Detectors :
          (mounted[d] /\ mounted'[d] /\ isSubmitting[d]) =>
            /\ Cardinality(inFlight(d)') <= Cardinality(inFlight(d))
            /\ awaiting'[d].cancel <= awaiting[d].cancel]_vars

\* The call of a mounted instance is in flight after an earlier instance
\* of the same form was cancelled
C34_Witness ==
  \E d \in Detectors :
    /\ inFlight(d) # {}
    /\ isSubmitting[d]
    /\ instance[d] = 2
    /\ sent(formId(d), "cancel") # {}
    /\ heard[d] = {}

\* C35: AddCrawlConfigForm makes the delete call only with a config id
\* that the create call returned; when the create call fails (an error
\* status, a network error, a response that cannot be decoded) handleSubmit
\* ends without a delete call; and every handleSubmit that ends calls
\* onSubmit once, at its end, with toolResponse.error in every failure
\* case.
C35_NoCompensationWithoutCreation ==
  /\ [](/\ \A x \in deletes : Truthy(x.id)
        /\ \A c \in calls : c.phase = "delete" => Truthy(c.configId))
  /\ [][\A c \in calls :
          (formTypeOf(toolConfig(c.d)) = "add_crawl_config" /\ settles(c)) =>
            /\ (c.phase = "create" /\ ends(c)) =>
                 /\ deletes' = deletes
                 /\ dispatches
                 /\ dispatched.kind = "submit"
                 /\ dispatched.by = formId(c.d)
                 /\ Truthy(errorOf(submittedForms'[formId(c.d)].submittedData))
            /\ c.phase = "create" =>
                 \A c2 \in calls' \ calls :
                   c2.phase = "delete" =>
                     \E body \in okBodies("add_crawl_config") :
                       /\ configDataOf(body).ok
                       /\ c2.configId = Get(configDataOf(body).v, "id")
                       /\ Truthy(c2.configId)
            /\ ends(c) <=> dispatches
            /\ (ends(c) /\ c.phase # "upload") =>
                 Truthy(errorOf(submittedForms'[formId(c.d)].submittedData))]_vars

\* A create call failed: its error is on the submitted record and no
\* delete call was ever made
C35_Witness ==
  \E d \in Detectors :
    /\ toolConfig(d) # NoConfig
    /\ formTypeOf(toolConfig(d)) = "add_crawl_config"
    /\ hasRecord(formId(d))
    /\ "submittedData" \in DOMAIN submittedForms[formId(d)]
    /\ errorOf(submittedForms[formId(d)].submittedData) \in {FetchError, ParseError}
    /\ deletes = {}
    /\ calls = {}

\* No detector is rendered: the atoms at their default, nothing under way
NoDetectors ==
  /\ props = <<>>
  /\ submittedForms = <<>>
  /\ isChatBlocked = <<>>
  /\ mounted = <<>>
  /\ instance = <<>>
  /\ thisFormState = <<>>
  /\ stale = <<>>
  /\ isSubmitting = <<>>
  /\ calls = {}
  /\ awaiting = <<>>
  /\ outbox = <<>>
  /\ lockCalls = <<>>
  /\ deletes = {}
  /\ blank = <<>>
  /\ rejected = <<>>
  /\ setterCalls = <<>>
  /\ heard = <<>>

\* ---- XofuLoginForm ----

\* What the user may type into the email and the password input
Emails == {"", "a@xofu.com", "b@xofu.com"}
Passwords == {"", "hunter2", "s3cret"}

\* The password of every payload
Masked == "***"

\* A response body that is not JSON: loginResponse.json() rejects
NoJson == [json |-> FALSE]

\* What the fetch of /api/auth/xofu/login may end in: a 2xx answer, an
\* answer with an error status, a rejection; an answered body is JSON with
\* or without a message, or not JSON at all
LoginResponses ==
  {[ok |-> TRUE, statusText |-> "OK", body |-> [json |-> TRUE, message |-> "Login successful"]],
   [ok |-> TRUE, statusText |-> "OK", body |-> NoJson],
   [ok |-> FALSE, statusText |-> "Unauthorized", body |-> [json |-> TRUE, message |-> "Invalid email or password"]],
   [ok |-> FALSE, statusText |-> "Bad Gateway", body |-> [json |-> TRUE, message |-> ""]],
   [ok |-> FALSE, statusText |-> "Bad Gateway", body |-> NoJson]}

\* The fetch itself rejects
Rejection == [rejects |-> "Failed to fetch"]

\* The try block of handleSubmit after the fetch: the message of the error
\* it throws, or no error
loginError(response) ==
  IF response = Rejection
  THEN [thrown |-> TRUE, message |-> <<Rejection.rejects>>]
  ELSE IF ~response.ok
       THEN LET errorData == IF response.body = NoJson
                             THEN [message |-> "Unknown error"]
                             ELSE response.body
            IN  [thrown |-> TRUE,
                 message |-> IF errorData.message # ""
                             THEN <<errorData.message>>
                             ELSE <<"Login failed: ", response.statusText>>]
       ELSE IF response.body = NoJson
            THEN [thrown |-> TRUE, message |-> <<"Unexpected token">>]
            ELSE [thrown |-> FALSE]

\* A payload that spreads formData
loginPayloadSpread(formData, error) ==
  IF error.thrown
  THEN [email |-> formData.email, password |-> formData.password, error |-> error.message]
  ELSE [email |-> formData.email, password |-> formData.password, token |-> "set"]

\* What handleSubmit gives to onSubmit, from its try block and from its catch
loginPayload(formData, error) ==
  IF error.thrown
  THEN [email |-> formData.email, password |-> Masked, error |-> error.message]
  ELSE [email |-> formData.email, password |-> Masked, token |-> "set"]

\* How many logins a run attempts
MaxLogins == 2

\* error of the form when it shows none: null
NoError == <<>>

\* No fetch under way
NoFetch == [body |-> "none"]

\* The form after its first render: useState of formData, isSubmitting, error
InitLogin ==
  /\ NoDetectors
  /\ xofuLoginForm = [formData |-> [email |-> "", password |-> ""],
                      isSubmitting |-> FALSE,
                      error |-> NoError,
                      fetch |-> NoFetch,
                      fetches |-> <<>>,
                      onSubmit |-> <<>>]
  /\ xofuLogin = Absent
  /\ crawlForm = Absent
  /\ mermaidPreview = Absent

\* handleInputChange of an input, which is disabled while isSubmitting
LoginInputChange(field, value) ==
  /\ ~xofuLoginForm.isSubmitting
  /\ xofuLoginForm' = [xofuLoginForm EXCEPT !.formData[field] = value, !.error = NoError]
  /\ UNCHANGED <<detectorVars, xofuLogin, crawlForm, mermaidPreview>>

\* handleSubmit up to its await: the form is submitted (the button is
\* disabled while isSubmitting)
LoginSubmit ==
  /\ ~xofuLoginForm.isSubmitting
  /\ Len(xofuLoginForm.fetches) < MaxLogins
  /\ xofuLoginForm' =
       IF xofuLoginForm.formData.email = "" \/ xofuLoginForm.formData.password = ""
       THEN xofuLoginForm
       ELSE [xofuLoginForm EXCEPT !.isSubmitting = TRUE,
                                  !.error = NoError,
                                  !.fetch = [formData |-> xofuLoginForm.formData,
                                             body |-> [email |-> xofuLoginForm.formData.email,
                                                       password |-> xofuLoginForm.formData.password]]]
  /\ UNCHANGED <<detectorVars, xofuLogin, crawlForm, mermaidPreview>>

\* handleSubmit from its await on: the fetch settles
LoginSettles(response) ==
  /\ xofuLoginForm.fetch # NoFetch
  /\ LET error == loginError(response)
     IN  xofuLoginForm' =
           [xofuLoginForm EXCEPT
              !.isSubmitting = FALSE,
              !.error = IF error.thrown THEN error.message ELSE @,
              !.fetch = NoFetch,
              !.fetches = Append(@, [body |-> xofuLoginForm.fetch.body, response |-> response]),
              !.onSubmit = Append(@, loginPayload(xofuLoginForm.fetch.formData, error))]
  /\ UNCHANGED <<detectorVars, xofuLogin, crawlForm, mermaidPreview>>

NextLogin ==
  \/ \E field \in {"email"} : \E value \in Emails : LoginInputChange(field, value)
  \/ \E field \in {"password"} : \E value \in Passwords : LoginInputChange(field, value)
  \/ LoginSubmit
  \/ \E response \in LoginResponses \cup {Rejection} : LoginSettles(response)

SpecLogin == InitLogin /\ [][NextLogin]_vars

\* C36: every payload that XofuLoginForm gives to onSubmit, from the try
\* block and from the catch, has the password '***'; and two submissions
\* that differ only in the typed password, the server answering the same,
\* give the same payload to onSubmit.
C36_PasswordNotPassedOn ==
  /\ Len(xofuLoginForm.onSubmit) = Len(xofuLoginForm.fetches)
  /\ \A i \in DOMAIN xofuLoginForm.onSubmit : xofuLoginForm.onSubmit[i].password = Masked
  /\ \A i, j \in DOMAIN xofuLoginForm.onSubmit :
       (/\ xofuLoginForm.fetches[i].body.email = xofuLoginForm.fetches[j].body.email
        /\ xofuLoginForm.fetches[i].response = xofuLoginForm.fetches[j].response) =>
         xofuLoginForm.onSubmit[i] = xofuLoginForm.onSubmit[j]

\* Two logins with different passwords were answered alike, once with a
\* failure
C36_Witness ==
  /\ Len(xofuLoginForm.onSubmit) = 2
  /\ xofuLoginForm.fetches[1].body.password # xofuLoginForm.fetches[2].body.password
  /\ xofuLoginForm.fetches[1].body.email = xofuLoginForm.fetches[2].body.email
  /\ xofuLoginForm.fetches[1].response = xofuLoginForm.fetches[2].response
  /\ xofuLoginForm.fetches[1].response # Rejection
  /\ ~xofuLoginForm.fetches[1].response.ok

\* ---- POST /xofu/login ----

\* req.body.email and req.body.password: absent, empty or given
LoginEmails == {Undef, Str(""), Str("a@xofu.com"), Str("b@xofu.com")}
LoginPasswords == {Undef, Str(""), Str("hunter2"), Str("s3cret")}

\* loginResponse.data of an answer of xofu.com with a 2xx status: a token
\* under one of the names the handler reads, under another name, no token,
\* a text, null
UpstreamData ==
  {Obj([token |-> Str("t-token")]),
   Obj([access_token |-> Str("t-access_token")]),
   Obj([access |-> Str("t-access"), token |-> Str("")]),
   Obj([jwt |-> Str("t-jwt")]),
   Obj([data |-> Obj([token |-> Str("t-data-token")])]),
   Obj([data |-> Obj([access |-> Str("t-data-access")])]),
   Obj([data |-> Null, session |-> Str("t-session")]),
   Obj([token |-> Num(7)]),
   EmptyObj,
   Str("OK"),
   Null}

\* A Set-Cookie line: the name before the first '=', the value up to the
\* first ';'
Cookie(name, value) == [name |-> name, value |-> value]

\* loginResponse.headers['set-cookie']: absent, or the lines
NoSetCookie == Undef
SetCookieHeaders ==
  {NoSetCookie,
   Arr(<<>>),
   Arr(<<Cookie("sid", "1")>>),
   Arr(<<Cookie("sid", "1"), Cookie("Access_Token", "c-access"), Cookie("jwt", "c-jwt")>>),
   Arr(<<Cookie("token", ""), Cookie("authtoken", "c-auth")>>),
   Arr(<<Cookie("tokens", "c-other")>>)}

\* The cookie names of the headers in lower case (the flag i of the pattern)
toLowerCase(name) == IF name = "Access_Token" THEN "access_token" ELSE name

\* cookieStr.match(/^(token|access_?token|auth_?token|jwt|access)=([^;]+)/i)
TokenCookieNames ==
  {"token", "accesstoken", "access_token", "authtoken", "auth_token", "jwt", "access"}

tokenMatch(cookieStr) ==
  toLowerCase(cookieStr.name) \in TokenCookieNames /\ cookieStr.value # ""

\* The token of the first line that matches, if any
tokenOfCookies(setCookieHeader) ==
  LET cookies == setCookieHeader.items
      hits == {i \in 1..Len(cookies) : tokenMatch(cookies[i])}
  IN  IF hits = {}
      THEN Undef
      ELSE Str(cookies[CHOOSE i \in hits : \A j \in hits : i <= j].value)

\* data.data?.key
optional(v, key) == IF CanGet(v) THEN Get(v, key) ELSE Undef

\* The token of the route: from the response body first, else from the
\* cookies
tokenOf(data, setCookieHeader) ==
  LET token == Or(Get(data, "token"),
                Or(Get(data, "access_token"),
                 Or(Get(data, "access"),
                  Or(Get(data, "jwt"),
                   Or(optional(Get(data, "data"), "token"),
                      optional(Get(data, "data"), "access"))))))
  IN  IF ~Truthy(token) /\ Truthy(setCookieHeader)
      THEN tokenOfCookies(setCookieHeader)
      ELSE token

\* Object.keys(v)
objectKeys(v) ==
  IF v.k = "obj"
  THEN LET n == Cardinality(DOMAIN v.f)
       IN  Arr([i \in 1..n |->
                  Str((CHOOSE s \in [1..n -> DOMAIN v.f] :
                         \A a, b \in 1..n : a # b => s[a] # s[b])[i])])
  ELSE IF v = Str("OK")
       THEN Arr(<<Str("0"), Str("1")>>)
       ELSE EmptyArr

\* What res is given: status, json and the cookie
Response(status, body, cookie) == [status |-> status, body |-> body, cookie |-> cookie]
NoCookie == Undef

\* An error of axios.post: with the response of xofu.com (its status and
\* data), without a response (error.request), or from setting the request up
UpstreamErrors ==
  {[response |-> [status |-> s, data |-> d]] :
     s \in {400, 401, 403, 404, 500},
     d \in {Undef, Obj([message |-> Str("upstream says no")]), EmptyObj}}
NoResponse == [request |-> TRUE]
SetupError == [message |-> "setup"]
TypeError == [message |-> "TypeError"]

\* A catch block that passes every status of xofu.com on
xofuLoginCatchPassOn(error) ==
  IF "response" \in DOMAIN error
  THEN Response(error.response.status,
                Obj([message |-> Or(optional(error.response.data, "message"),
                                    Str("Login failed"))]),
                NoCookie)
  ELSE IF "request" \in DOMAIN error
       THEN Response(503, Obj([message |-> Str("Unable to connect to xofu")]), NoCookie)
       ELSE Response(500, Obj([message |-> Str("Internal server error")]), NoCookie)

\* The catch block of the handler
xofuLoginCatch(error) ==
  IF "response" \in DOMAIN error
  THEN LET status == error.response.status
       IN  IF status = 401 \/ status = 403
           THEN Response(401, Obj([message |-> Str("Invalid email or password")]), NoCookie)
           ELSE IF status = 404
                THEN Response(503, Obj([message |-> Str("xofu login service unavailable")]),
                              NoCookie)
                ELSE Response(status,
                              Obj([message |-> Or(optional(error.response.data, "message"),
                                                  Str("Login failed"))]),
                              NoCookie)
  ELSE IF "request" \in DOMAIN error
       THEN Response(503, Obj([message |-> Str("Unable to connect to xofu")]), NoCookie)
       ELSE Response(500, Obj([message |-> Str("Internal server error")]), NoCookie)

\* The try block after axios.post resolved
xofuLoginAnswered(data, setCookieHeader) ==
  IF ~CanGet(data)
  THEN xofuLoginCatch(TypeError)
  ELSE LET token == tokenOf(data, setCookieHeader)
       IN  IF ~Truthy(token)
           THEN Response(500,
                         Obj([message |-> Str("No authentication token received from xofu"),
                              debug |-> Obj([responseKeys |-> objectKeys(data),
                                             hasCookies |-> Bool(Truthy(setCookieHeader))])]),
                         NoCookie)
           ELSE Response(200,
                         Obj([message |-> Str("Login successful"),
                              expiresAt |-> Str("in 30 days")]),
                         [name |-> "xofuAuthToken", value |-> token])

\* The upstream call is not made, is under way
NotCalled == [called |-> FALSE]
Pending == [called |-> TRUE]

\* res before the handler answers
NoAnswer == [status |-> 0]

\* A request arrives at the handler
InitRoute ==
  /\ NoDetectors
  /\ xofuLogin \in {[req |-> [body |-> [email |-> e, password |-> p]],
                     loginResponse |-> NotCalled,
                     res |-> NoAnswer] : e \in LoginEmails, p \in LoginPasswords}
  /\ xofuLoginForm = Absent
  /\ crawlForm = Absent
  /\ mermaidPreview = Absent

\* The handler up to its await: 400, or the call of xofu.com
XofuLoginReceives ==
  /\ xofuLogin.res = NoAnswer
  /\ xofuLogin.loginResponse = NotCalled
  /\ xofuLogin' =
       IF ~Truthy(xofuLogin.req.body.email) \/ ~Truthy(xofuLogin.req.body.password)
       THEN [xofuLogin EXCEPT !.res = Response(400,
                                       Obj([message |-> Str("Email and password are required")]),
                                       NoCookie)]
       ELSE [xofuLogin EXCEPT !.loginResponse = Pending]
  /\ UNCHANGED <<detectorVars, xofuLoginForm, crawlForm, mermaidPreview>>

\* xofu.com answers with a 2xx status
XofuAnswers(data, setCookieHeader) ==
  /\ xofuLogin.loginResponse = Pending
  /\ xofuLogin' = [xofuLogin EXCEPT
                     !.loginResponse = [called |-> TRUE, data |-> data,
                                        setCookie |-> setCookieHeader],
                     !.res = xofuLoginAnswered(data, setCookieHeader)]
  /\ UNCHANGED <<detectorVars, xofuLoginForm, crawlForm, mermaidPreview>>

\* axios.post rejects
XofuFails(error) ==
  /\ xofuLogin.loginResponse = Pending
  /\ xofuLogin' = [xofuLogin EXCEPT
                     !.loginResponse = [called |-> TRUE, error |-> error],
                     !.res = xofuLoginCatch(error)]
  /\ UNCHANGED <<detectorVars, xofuLoginForm, crawlForm, mermaidPreview>>

NextRoute ==
  \/ XofuLoginReceives
  \/ \E data \in UpstreamData : \E setCookieHeader \in SetCookieHeaders :
       XofuAnswers(data, setCookieHeader)
  \/ \E error \in UpstreamErrors \cup {NoResponse, SetupError} : XofuFails(error)

SpecRoute == InitRoute /\ [][NextRoute]_vars

\* The handler has answered
answered == xofuLogin.res # NoAnswer

\* The tokens that an answer of xofu.com holds where the handler looks for
\* one: in its body, in its cookies
bodyTokens(data) ==
  IF CanGet(data)
  THEN {v \in {Get(data, "token"), Get(data, "access_token"), Get(data, "access"),
               Get(data, "jwt"), optional(Get(data, "data"), "token"),
               optional(Get(data, "data"), "access")} : Truthy(v)}
  ELSE {}

cookieTokens(setCookieHeader) ==
  IF Truthy(setCookieHeader)
  THEN {Str(setCookieHeader.items[i].value) :
          i \in {j \in 1..Len(setCookieHeader.items) : tokenMatch(setCookieHeader.items[j])}}
  ELSE {}

tokensReceived ==
  IF "data" \in DOMAIN xofuLogin.loginResponse
  THEN bodyTokens(xofuLogin.loginResponse.data) \cup
       cookieTokens(xofuLogin.loginResponse.setCookie)
  ELSE {}

\* The values a JSON body is made of
RECURSIVE valuesIn(_)
valuesIn(v) ==
  {v} \cup (IF v.k = "obj"
            THEN UNION {valuesIn(v.f[key]) : key \in DOMAIN v.f}
            ELSE IF v.k = "arr"
                 THEN UNION {valuesIn(v.items[i]) : i \in 1..Len(v.items)}
                 ELSE {})

\* The status of the error that axios.post rejected with, 0 without one
upstreamStatus ==
  IF "error" \in DOMAIN xofuLogin.loginResponse /\
     "response" \in DOMAIN xofuLogin.loginResponse.error
  THEN xofuLogin.loginResponse.error.response.status
  ELSE 0

\* C37: POST /xofu/login answers 400 and does not call xofu.com when email
\* or password is missing; it sets the cookie xofuAuthToken exactly when it
\* answers 200, and then the cookie holds a token found in the body or in
\* the cookies of the answer of xofu.com; 401 and 403 of xofu.com become
\* 401, 404 and no response become 503; and no token is part of the
\* response body.
C37_LoginRouteOutcomes ==
  /\ (~Truthy(xofuLogin.req.body.email) \/ ~Truthy(xofuLogin.req.body.password)) =>
       /\ xofuLogin.loginResponse = NotCalled
       /\ answered => xofuLogin.res.status = 400
  /\ answered =>
       /\ xofuLogin.res.cookie # NoCookie <=> xofuLogin.res.status = 200
       /\ xofuLogin.res.status = 200 =>
            /\ xofuLogin.res.cookie.name = "xofuAuthToken"
            /\ xofuLogin.res.cookie.value \in tokensReceived
       /\ upstreamStatus \in {401, 403} => xofuLogin.res.status = 401
       /\ upstreamStatus = 404 => xofuLogin.res.status = 503
       /\ xofuLogin.loginResponse = [called |-> TRUE, error |-> NoResponse] =>
            xofuLogin.res.status = 503
       /\ \A token \in tokensReceived : token \notin valuesIn(xofuLogin.res.body)

\* The route answered 200 with a token that only a cookie of xofu.com held
C37_Witness ==
  /\ answered
  /\ xofuLogin.res.status = 200
  /\ bodyTokens(xofuLogin.loginResponse.data) = {}
  /\ xofuLogin.res.cookie.value = Str("c-access")

\* ---- CrawlForm: prefilledParams ----

\* The websiteOptions and crawlConfigOptions a CrawlForm may be given: the
\* ids are whatever the output of the tool held, texts or numbers
WebsiteOptionLists ==
  {<<>>, <<[id |-> Str("w1")]>>, <<[id |-> Str("w1")], [id |-> Num(5)]>>}
CrawlConfigOptionLists == {<<>>, <<[id |-> Str("c1")]>>}

\* The prefilledParams it may be given: any of the keys, with values that
\* are offered, not offered or empty
PrefilledParams ==
  {Obj(f) : f \in UNION {[keys -> {Str(""), Str("w1"), Str("w9"), Num(5), Str("5"),
                                   Str("default"), Str("c1")}] :
                           keys \in SUBSET {"website_id", "crawl_config_id"}}}
  \cup {Obj([description |-> Str("relaunch")]),
        Obj([launch_date |-> Str("2025-01-01"), website_id |-> Str("w1")])}

\* options.some((o) => o.id === id), for any id
someOptionAny(options, id) == TRUE

\* options.some((o) => o.id === id)
someOption(options, id) == \E i \in 1..Len(options) : options[i].id = id

\* The updater that the prefill effect gives to setFormData
prefill(prev, prefilledParams, websiteOptions, crawlConfigOptions) ==
  LET website_id == Get(prefilledParams, "website_id")
      crawl_config_id == Get(prefilledParams, "crawl_config_id")
      launch_date == Get(prefilledParams, "launch_date")
      description == Get(prefilledParams, "description")
  IN  [website_id |->
         IF Truthy(website_id) /\ someOption(websiteOptions, website_id)
         THEN website_id ELSE prev.website_id,
       crawl_config_id |->
         IF Truthy(crawl_config_id) /\
            (crawl_config_id = Str("default") \/ someOption(crawlConfigOptions, crawl_config_id))
         THEN crawl_config_id ELSE prev.crawl_config_id,
       launch_date |-> IF Truthy(launch_date) THEN launch_date ELSE prev.launch_date,
       description |-> IF Truthy(description) THEN description ELSE prev.description]

\* The value attribute of an option, which a select hands to onChange:
\* the id as text
optionValue(id) == IF id.k = "num" THEN Str(ToString(id.n)) ELSE id

\* How often the prefill effect runs in a run: on the first render and
\* whenever one of its dependencies is a new object
MaxEffectRuns == 2

\* A CrawlForm before its first effect: its props and useState of formData
InitCrawlForm ==
  /\ NoDetectors
  /\ crawlForm \in {[websiteOptions |-> w,
                     crawlConfigOptions |-> c,
                     prefilledParams |-> p,
                     formData |-> [website_id |-> Str(""), launch_date |-> Str(""),
                                   description |-> Str(""), crawl_config_id |-> Str("default")],
                     effectRuns |-> 0] :
                      w \in WebsiteOptionLists, c \in CrawlConfigOptionLists,
                      p \in PrefilledParams}
  /\ xofuLoginForm = Absent
  /\ xofuLogin = Absent
  /\ mermaidPreview = Absent

\* The prefill effect runs
CrawlFormPrefill ==
  /\ crawlForm.effectRuns < MaxEffectRuns
  /\ crawlForm' =
       [crawlForm EXCEPT
          !.effectRuns = @ + 1,
          !.formData = IF DOMAIN crawlForm.prefilledParams.f # {}
                       THEN prefill(@, crawlForm.prefilledParams, crawlForm.websiteOptions,
                                    crawlForm.crawlConfigOptions)
                       ELSE @]
  /\ UNCHANGED <<detectorVars, xofuLoginForm, xofuLogin, mermaidPreview>>

\* handleInputChange of one of the two selects: the value of an option
CrawlFormSelect(field, value) ==
  /\ crawlForm.effectRuns > 0
  /\ \/ /\ field = "website_id"
        /\ \/ value = Str("")
           \/ \E i \in 1..Len(crawlForm.websiteOptions) :
                value = optionValue(crawlForm.websiteOptions[i].id)
     \/ /\ field = "crawl_config_id"
        /\ \/ value = Str("default")
           \/ \E i \in 1..Len(crawlForm.crawlConfigOptions) :
                value = optionValue(crawlForm.crawlConfigOptions[i].id)
  /\ crawlForm' = [crawlForm EXCEPT !.formData[field] = value]
  /\ UNCHANGED <<detectorVars, xofuLoginForm, xofuLogin, mermaidPreview>>

NextCrawlForm ==
  \/ CrawlFormPrefill
  \/ \E field \in {"website_id", "crawl_config_id"} :
       \E value \in {Str(""), Str("default"), Str("w1"), Str("5"), Str("c1")} :
         CrawlFormSelect(field, value)

SpecCrawlForm == InitCrawlForm /\ [][NextCrawlForm]_vars

\* The prefill effect runs in this step
prefills == crawlForm'.effectRuns # crawlForm.effectRuns

\* The select of the form offers the id: one of its options has the value
\* that the select is given with the id
offered(options, id) ==
  \E i \in 1..Len(options) : optionValue(options[i].id) = optionValue(id)

\* C38: the prefill effect of CrawlForm sets website_id to the prefilled
\* one only when an option has that id, and crawl_config_id to the
\* prefilled one only when that is 'default' or the id of an option;
\* otherwise the field keeps its value; and after the effect website_id is
\* empty or one of the ids that the select offers.
C38_PrefillRespectsOptions ==
  /\ [][prefills =>
          /\ \/ crawlForm'.formData.website_id = crawlForm.formData.website_id
             \/ /\ crawlForm'.formData.website_id = Get(crawlForm.prefilledParams, "website_id")
                /\ \E i \in 1..Len(crawlForm.websiteOptions) :
                     crawlForm.websiteOptions[i].id = crawlForm'.formData.website_id
          /\ \/ crawlForm'.formData.crawl_config_id = crawlForm.formData.crawl_config_id
             \/ /\ crawlForm'.formData.crawl_config_id =
                     Get(crawlForm.prefilledParams, "crawl_config_id")
                /\ \/ crawlForm'.formData.crawl_config_id = Str("default")
                   \/ \E i \in 1..Len(crawlForm.crawlConfigOptions) :
                        crawlForm.crawlConfigOptions[i].id = crawlForm'.formData.crawl_config_id]_vars
  /\ [](crawlForm.effectRuns > 0 =>
          \/ crawlForm.formData.website_id = Str("")
          \/ offered(crawlForm.websiteOptions, crawlForm.formData.website_id))

\* The effect has set the website to the offered number 5 and has left the
\* configuration alone, the prefilled one not being offered
C38_Witness ==
  /\ crawlForm.effectRuns > 0
  /\ crawlForm.formData.website_id = Num(5)
  /\ Get(crawlForm.prefilledParams, "crawl_config_id") = Str("c1")
  /\ crawlForm.crawlConfigOptions = <<>>
  /\ crawlForm.formData.crawl_config_id = Str("default")

\* ---- MermaidPreview: zoom and pan ----

\* The zoom factor in hundredths (0.25 and its multiples are binary
\* fractions: the sums and differences of the handlers are exact)
MIN_ZOOM == 25
MAX_ZOOM == 300
ZOOM_STEP == 25

\* Math.min, Math.max
min(a, b) == IF a <= b THEN a ELSE b
max(a, b) == IF a >= b THEN a ELSE b

\* An updater that does not limit the zoom
zoomInUnlimited(prev) == prev + ZOOM_STEP

\* The updaters of handleZoomIn, handleZoomOut and handleWheel
zoomIn(prev) == min(prev + ZOOM_STEP, MAX_ZOOM)
zoomOut(prev) == max(prev - ZOOM_STEP, MIN_ZOOM)
zoomBy(prev, delta) == min(max(prev + delta, MIN_ZOOM), MAX_ZOOM)

\* Where the pointer may be (clientX, clientY), and how far a run pans
ClientCoordinates == 0..1
MaxPan == 1

\* The preview after its first render
InitPreview ==
  /\ NoDetectors
  /\ mermaidPreview = [zoom |-> 100,
                       pan |-> [x |-> 0, y |-> 0],
                       isDragging |-> FALSE,
                       dragStart |-> [x |-> 0, y |-> 0],
                       panStart |-> [x |-> 0, y |-> 0]]
  /\ xofuLoginForm = Absent
  /\ xofuLogin = Absent
  /\ crawlForm = Absent

handleZoomIn ==
  /\ mermaidPreview' = [mermaidPreview EXCEPT !.zoom = zoomIn(@)]
  /\ UNCHANGED <<detectorVars, xofuLoginForm, xofuLogin, crawlForm>>

handleZoomOut ==
  /\ mermaidPreview' = [mermaidPreview EXCEPT !.zoom = zoomOut(@)]
  /\ UNCHANGED <<detectorVars, xofuLoginForm, xofuLogin, crawlForm>>

handleResetZoom ==
  /\ mermaidPreview' = [mermaidPreview EXCEPT !.zoom = 100, !.pan = [x |-> 0, y |-> 0]]
  /\ UNCHANGED <<detectorVars, xofuLoginForm, xofuLogin, crawlForm>>

\* The wheel listener of the container
handleWheel(ctrlKey, metaKey, deltaY) ==
  /\ mermaidPreview' =
       IF ctrlKey \/ metaKey
       THEN [mermaidPreview EXCEPT
               !.zoom = zoomBy(@, IF deltaY > 0 THEN -ZOOM_STEP ELSE ZOOM_STEP)]
       ELSE mermaidPreview
  /\ UNCHANGED <<detectorVars, xofuLoginForm, xofuLogin, crawlForm>>

handleMouseDown(button, clientX, clientY) ==
  /\ mermaidPreview' =
       IF button # 0
       THEN mermaidPreview
       ELSE [mermaidPreview EXCEPT !.isDragging = TRUE,
                                   !.dragStart = [x |-> clientX, y |-> clientY],
                                   !.panStart = mermaidPreview.pan]
  /\ UNCHANGED <<detectorVars, xofuLoginForm, xofuLogin, crawlForm>>

handleMouseMove(clientX, clientY) ==
  /\ LET dx == clientX - mermaidPreview.dragStart.x
         dy == clientY - mermaidPreview.dragStart.y
         moved == [x |-> mermaidPreview.panStart.x + dx, y |-> mermaidPreview.panStart.y + dy]
     IN  /\ moved.x \in -MaxPan..MaxPan
         /\ moved.y \in -MaxPan..MaxPan
         /\ mermaidPreview' =
              IF ~mermaidPreview.isDragging
              THEN mermaidPreview
              ELSE [mermaidPreview EXCEPT !.pan = moved]
  /\ UNCHANGED <<detectorVars, xofuLoginForm, xofuLogin, crawlForm>>

\* handleMouseUp and handleMouseLeave
handleMouseUp ==
  /\ mermaidPreview' = [mermaidPreview EXCEPT !.isDragging = FALSE]
  /\ UNCHANGED <<detectorVars, xofuLoginForm, xofuLogin, crawlForm>>

NextPreview ==
  \/ handleZoomIn
  \/ handleZoomOut
  \/ handleResetZoom
  \/ \E ctrlKey, metaKey \in BOOLEAN : \E deltaY \in {-1, 0, 1} :
       handleWheel(ctrlKey, metaKey, deltaY)
  \/ \E button \in {0, 2} : \E clientX, clientY \in ClientCoordinates :
       handleMouseDown(button, clientX, clientY)
  \/ \E clientX, clientY \in ClientCoordinates : handleMouseMove(clientX, clientY)
  \/ handleMouseUp

SpecPreview == InitPreview /\ [][NextPreview]_vars

\* C39: whatever zoom-in, zoom-out, ctrl/meta wheel and reset have run,
\* zoom is a multiple of 0.25 from 0.25 to 3; zoom-in at 3 and zoom-out at
\* 0.25 leave it as it is; reset sets zoom to 1 and pan to (0, 0).
C39_ZoomInBounds ==
  /\ [](/\ mermaidPreview.zoom % ZOOM_STEP = 0
        /\ MIN_ZOOM <= mermaidPreview.zoom
        /\ mermaidPreview.zoom <= MAX_ZOOM)
  /\ [][/\ (handleZoomIn /\ mermaidPreview.zoom = MAX_ZOOM) =>
             mermaidPreview'.zoom = mermaidPreview.zoom
        /\ (handleZoomOut /\ mermaidPreview.zoom = MIN_ZOOM) =>
             mermaidPreview'.zoom = mermaidPreview.zoom
        /\ handleResetZoom =>
             mermaidPreview'.zoom = 100 /\ mermaidPreview'.pan = [x |-> 0, y |-> 0]]_vars

\* The zoom is at its upper limit and the diagram is panned
C39_Witness ==
  /\ mermaidPreview.zoom = MAX_ZOOM
  /\ mermaidPreview.pan # [x |-> 0, y |-> 0]

====
